---- MODULE Spec2Model ----
(***************************************************************************)
(* Verification model of the geometric-relief core:                        *)
(*   Delaunay.triangulate / addPoint / circumcircle   (js/delaunay.js)     *)
(*   GeometryGenerator.simpleDelaunay                 (js/geometryGenerator.js) *)
(*   MeshBuilder.build and its facet builders         (js/meshBuilder.js)  *)
(*                                                                         *)
(* Numbers.  The JavaScript code works on IEEE doubles.  The model works   *)
(* on exact rationals: every coordinate is stored as an integer number of  *)
(* half units (stored = 2 * value), which is exact for integer input       *)
(* coordinates including the half-integer x of the third super-triangle    *)
(* vertex.  A circumcentre is the pair of fractions nx/d, ny/d.            *)
(***************************************************************************)
EXTENDS Integers, Sequences, FiniteSets, TLC

VARIABLES
  pc,         \* position of the running call
  points,     \* the caller's point list handed to the triangulator
  triangles,  \* Delaunay.triangulate: the working triangle list
  nextPt,     \* Delaunay.triangulate: index of the next point of the for-loop
  result,     \* value returned by Delaunay.triangulate
  sdPoints,   \* the array object handed to GeometryGenerator.simpleDelaunay
  sdResult,   \* value returned by GeometryGenerator.simpleDelaunay
  ccArgs,     \* arguments of a direct circumcircle / pointInCircumcircle call
  ccRet,      \* values returned by these calls
  config,     \* the global ConfigManager's config object (fields the mesh code reads)
  call,       \* the mesh call in progress and its arguments tileCol, tileRow
  geometry,   \* argument geometry.triangles (generate3DGeometry: the shapes)
  cfg,        \* argument cfg (generate3DGeometry: its config argument)
  buildTris,  \* MeshBuilder.build: the triangle list it iterates over
  buildCfg,   \* MeshBuilder.build: the cfg it was called with
  verts,      \* the vertices array being filled (flat: x, y, z, x, y, z, ...)
  inds,       \* the indices array being filled (flat)
  nextTri,    \* index of the next triangle / shape of the loop
  vertexOffset, \* generate3DGeometry: vertexOffset
  mesh,       \* the value returned by the mesh call
  reported,   \* the triangle count the call reports (triangleCount / log line)
  rawZ,       \* per facet built: the locals z0, z1, z2 as calcZ returned them
  tiltCfg,    \* tilt computation: facetSharpness and maxTiltAngle of the cfg
  tiltBright, \* tilt computation: the brightness of each facet, in tenths
  angledTilts, \* tiltAmount of addAngledFacet, per facet computed so far
  hybridTilts, \* tiltAmount of addHybridFacet, per facet computed so far
  genCfg,     \* generate3DGeometry / generatePoints: the config argument
  edgeQueue,  \* generatePoints: the samples of the sorted edgeMap with edge > 0.15
  edgeNext,   \* generatePoints: index of the next sample of edgeMap.forEach
  edgePointCount, \* generatePoints: edgePointCount
  gpPoints,   \* generatePoints: the points array
  gpGrid,     \* generatePoints: the grid object (one point per cell key)
  regNext,    \* generatePoints: index of the next position of the regular loops
  tiCols,     \* getTileInfo: cols
  tiRows,     \* getTileInfo: rows
  tiRow,      \* getTileInfo: row of the outer loop
  tiCol,      \* getTileInfo: col of the inner loop
  tiTiles,    \* getTileInfo: tiles
  tileInfo,   \* value returned by getTileInfo
  listeners,  \* ConfigManager: this.listeners, the callbacks in push order
  unsubscribers, \* the functions onChange has returned, each with its captured callback
  invoked,    \* the listener invocations of the last ConfigManager call, in order
  returned    \* the last ConfigManager call and the value it returned

delaunayVars == <<points, triangles, nextPt, result, sdPoints, sdResult>>
circleVars == <<ccArgs, ccRet>>
meshVars == <<config, call, geometry, cfg, buildTris, buildCfg, verts, inds, nextTri, vertexOffset, mesh, reported, rawZ>>
tiltVars == <<tiltCfg, tiltBright, angledTilts, hybridTilts>>
genVars == <<genCfg, edgeQueue, edgeNext, edgePointCount, gpPoints, gpGrid, regNext>>
infoVars == <<tiCols, tiRows, tiRow, tiCol, tiTiles, tileInfo>>
managerVars == <<listeners, unsubscribers, invoked, returned>>
otherVars == <<tiltVars, genVars, infoVars, managerVars>>
vars == <<pc, delaunayVars, circleVars, meshVars, otherVars>>

(***************************************************************************)
(* Bounds of the model.                                                    *)
(***************************************************************************)
GridMax == 2      \* input coordinates range over 0..GridMax
MaxPoints == 4    \* longest input point list

(***************************************************************************)
(* Exact arithmetic helpers.  TLC integers are 32 bit; the products of the *)
(* in-circle test are kept as two limbs  hi * 2^15 + lo, 0 <= lo < 2^15.   *)
(***************************************************************************)
WideMul(a, b) ==
  LET ah == a \div 32768
      al == a % 32768
      bh == b \div 32768
      bl == b % 32768
      low == al * bl
  IN  [hi |-> ah * bh * 32768 + ah * bl + al * bh + (low \div 32768),
       lo |-> low % 32768]

WideAdd(u, v) ==
  [hi |-> u.hi + v.hi + ((u.lo + v.lo) \div 32768), lo |-> (u.lo + v.lo) % 32768]

WideNeg(u) ==
  IF u.lo = 0 THEN [hi |-> 0 - u.hi, lo |-> 0]
              ELSE [hi |-> 0 - u.hi - 1, lo |-> 32768 - u.lo]

WideSign(u) ==
  IF u.hi < 0 THEN 0 - 1 ELSE IF u.hi = 0 /\ u.lo = 0 THEN 0 ELSE 1

Sign(n) == IF n < 0 THEN 0 - 1 ELSE IF n = 0 THEN 0 ELSE 1

Min2(a, b) == IF a < b THEN a ELSE b
Max2(a, b) == IF a > b THEN a ELSE b

RECURSIVE SeqMin(_), SeqMax(_)
SeqMin(s) == IF Len(s) = 1 THEN s[1] ELSE Min2(s[1], SeqMin(Tail(s)))
SeqMax(s) == IF Len(s) = 1 THEN s[1] ELSE Max2(s[1], SeqMax(Tail(s)))

(***************************************************************************)
(* Points.  A point object is a record; the id field stands for the        *)
(* object's identity (=== in the code compares references): the k-th       *)
(* element of the input list has id k, the super-triangle vertices have    *)
(* ids -1, -2, -3.  x and y are stored doubled.                            *)
(***************************************************************************)
MkPoint(gx, gy, k) == [x |-> 2 * gx, y |-> 2 * gy, id |-> k, isSuper |-> FALSE]

Grid == (0..GridMax) \X (0..GridMax)

GridLists == UNION {[1..n -> Grid] : n \in 0..MaxPoints}

\* Point lists with a thin, nearly collinear hull (coordinates 0..7).
SliverLists ==
  { <<<<0, 5>>, <<3, 3>>, <<7, 0>>>>,
    <<<<7, 0>>, <<3, 3>>, <<0, 5>>>>,
    <<<<3, 3>>, <<0, 5>>, <<7, 0>>>>,
    <<<<0, 5>>, <<3, 3>>, <<7, 0>>, <<7, 5>>>> }

ToPoints(l) == [k \in 1..Len(l) |-> MkPoint(l[k][1], l[k][2], k)]

Inputs == {ToPoints(l) : l \in GridLists \cup SliverLists}

(***************************************************************************)
(* Delaunay.circumcircle.  The circle object {x, y, r} is kept as          *)
(*   x = nx / d, y = ny / d, r = distance from (ax, ay) to the centre,     *)
(* or, for a degenerate triangle, centre (ax, ay) and r = Infinity (inf).  *)
(* |d| < 1e-10 is d = 0 on the model's coordinates, where d is an integer. *)
(***************************************************************************)
circumcircle(vertices) ==
  LET ax == vertices[1].x
      ay == vertices[1].y
      bx == vertices[2].x
      by == vertices[2].y
      cx == vertices[3].x
      cy == vertices[3].y
      d  == 2 * (ax * (by - cy) + bx * (cy - ay) + cx * (ay - by))
  IN  IF d = 0
      THEN [nx |-> ax, ny |-> ay, d |-> 1, ax |-> ax, ay |-> ay, inf |-> TRUE]
      ELSE [nx |-> (ax*ax + ay*ay) * (by - cy) + (bx*bx + by*by) * (cy - ay)
                     + (cx*cx + cy*cy) * (ay - by),
            ny |-> (ax*ax + ay*ay) * (cx - bx) + (bx*bx + by*by) * (ax - cx)
                     + (cx*cx + cy*cy) * (bx - ax),
            d  |-> d, ax |-> ax, ay |-> ay, inf |-> FALSE]

(***************************************************************************)
(* Delaunay.pointInCircumcircle:  sqrt(dx*dx + dy*dy) < circle.r.          *)
(* With r = Infinity the comparison is true for every (finite) point.      *)
(* Otherwise  |p - u|^2 < |a - u|^2  with u = (nx, ny) / d, which is       *)
(*   sign(d) * ((|p|^2 - |a|^2) * d - 2 * ((p - a) . (nx, ny))) < 0.       *)
(***************************************************************************)
InCircleSign(point, circle) ==
  LET pp == point.x * point.x + point.y * point.y
      aa == circle.ax * circle.ax + circle.ay * circle.ay
      t1 == WideMul(pp - aa, circle.d)
      t2 == WideMul(2 * (point.x - circle.ax), circle.nx)
      t3 == WideMul(2 * (point.y - circle.ay), circle.ny)
  IN  Sign(circle.d) * WideSign(WideAdd(t1, WideNeg(WideAdd(t2, t3))))

pointInCircumcircle(point, circle) ==
  IF circle.inf THEN TRUE ELSE InCircleSign(point, circle) < 0

(***************************************************************************)
(* Delaunay.edgesEqual: undirected equality of two edges by reference.     *)
(***************************************************************************)
\* variant: the reversed orientation is forgotten
edgesEqual_directed(e1, e2) == e1[1].id = e2[1].id /\ e1[2].id = e2[2].id

edgesEqual(e1, e2) ==
  \/ (e1[1].id = e2[1].id /\ e1[2].id = e2[2].id)
  \/ (e1[1].id = e2[2].id /\ e1[2].id = e2[1].id)

TriEdge(tri, i) == <<tri.vertices[i + 1], tri.vertices[((i + 1) % 3) + 1]>>

(***************************************************************************)
(* Delaunay.addPoint.                                                      *)
(***************************************************************************)
BadIndices(tris, point) ==
  SelectSeq([i \in 1..Len(tris) |-> i],
            LAMBDA i : pointInCircumcircle(point, tris[i].circle))

\* isShared of the edge i of bad triangle number b (position in bad)
\* variant: only the first edge of the other triangle is compared
IsShared_firstEdge(tris, bad, b, i) ==
  \E o \in 1..Len(bad) :
     /\ bad[o] # bad[b]
     /\ edgesEqual(TriEdge(tris[bad[b]], i), TriEdge(tris[bad[o]], 0))

IsShared(tris, bad, b, i) ==
  \E o \in 1..Len(bad) :
     /\ bad[o] # bad[b]
     /\ \E j \in 0..2 : edgesEqual(TriEdge(tris[bad[b]], i), TriEdge(tris[bad[o]], j))

Polygon(tris, bad) ==
  LET cand == [k \in 1..(3 * Len(bad)) |-> [b |-> ((k - 1) \div 3) + 1, i |-> (k - 1) % 3]]
      kept == SelectSeq(cand, LAMBDA c : ~IsShared(tris, bad, c.b, c.i))
  IN  [k \in 1..Len(kept) |-> TriEdge(tris[bad[kept[k].b]], kept[k].i)]

NewTriangle(edge, point) ==
  LET newVerts == <<edge[1], edge[2], point>>
  IN  [vertices |-> newVerts, circle |-> circumcircle(newVerts)]

addPoint(tris, point) ==
  LET bad     == BadIndices(tris, point)
      badSet  == {bad[k] : k \in 1..Len(bad)}
      polygon == Polygon(tris, bad)
      keptIdx == SelectSeq([i \in 1..Len(tris) |-> i], LAMBDA i : i \notin badSet)
  IN  [k \in 1..Len(keptIdx) |-> tris[keptIdx[k]]]
        \o [k \in 1..Len(polygon) |-> NewTriangle(polygon[k], point)]

(***************************************************************************)
(* Delaunay.triangulate, lines 8-35: bounding box, margin, super triangle. *)
(***************************************************************************)
MarginFactor == 10

SuperTriangle(pts) ==
  LET xs == [k \in 1..Len(pts) |-> pts[k].x]
      ys == [k \in 1..Len(pts) |-> pts[k].y]
      minX == SeqMin(xs)
      maxX == SeqMax(xs)
      minY == SeqMin(ys)
      maxY == SeqMax(ys)
      \* (maxX - minX) || 1 : a zero extent is replaced by 1 (2 half units)
      dx == IF maxX - minX = 0 THEN 2 ELSE maxX - minX
      dy == IF maxY - minY = 0 THEN 2 ELSE maxY - minY
      margin == Max2(dx, dy) * MarginFactor
  IN  << [x |-> minX - margin,      y |-> minY - margin,     id |-> 0 - 1, isSuper |-> TRUE],
         [x |-> maxX + margin * 2,  y |-> minY - margin,     id |-> 0 - 2, isSuper |-> TRUE],
         \* stored doubled, so (minX + maxX) / 2 is exact
         [x |-> (minX + maxX) \div 2, y |-> maxY + margin * 2, id |-> 0 - 3, isSuper |-> TRUE] >>

InitialTriangles(pts) ==
  LET superTri == SuperTriangle(pts)
  IN  << [vertices |-> superTri, circle |-> circumcircle(superTri)] >>

\* variant: off by one in the length guard
TooFewPoints_lt2(pts) == Len(pts) < 2

TooFewPoints(pts) == Len(pts) < 3

\* variant: "every" in place of "some"
TouchesSuper_every(tri) == \A i \in 1..3 : tri.vertices[i].isSuper

TouchesSuper(tri) == \E i \in 1..3 : tri.vertices[i].isSuper

RemoveSuper(tris) == SelectSeq(tris, LAMBDA t : ~TouchesSuper(t))

\* Delaunay.triangulate as a function of its argument
RECURSIVE InsertAll(_, _, _)
InsertAll(tris, pts, k) ==
  IF k > Len(pts) THEN tris ELSE InsertAll(addPoint(tris, pts[k]), pts, k + 1)

triangulate(pts) ==
  IF TooFewPoints(pts) THEN <<>>
  ELSE RemoveSuper(InsertAll(InitialTriangles(pts), pts, 1))

(***************************************************************************)
(* GeometryGenerator.simpleDelaunay and its helpers.                       *)
(***************************************************************************)
\* comparator of points.sort: a.x - b.x || a.y - b.y
SortCompare(a, b) == IF a.x - b.x # 0 THEN a.x - b.x ELSE a.y - b.y

\* Array.prototype.sort is stable: insert each element after the last
\* element that does not compare greater.
RECURSIVE InsertSorted(_, _)
InsertSorted(s, p) ==
  IF Len(s) = 0 THEN <<p>>
  ELSE IF SortCompare(s[Len(s)], p) <= 0 THEN Append(s, p)
  ELSE Append(InsertSorted(SubSeq(s, 1, Len(s) - 1), p), s[Len(s)])

RECURSIVE SortPoints(_)
SortPoints(s) ==
  IF Len(s) = 0 THEN <<>>
  ELSE InsertSorted(SortPoints(SubSeq(s, 1, Len(s) - 1)), s[Len(s)])

inCircumcircle(p, tri) ==
  LET ax == tri[1].x - p.x
      ay == tri[1].y - p.y
      bx == tri[2].x - p.x
      by == tri[2].y - p.y
      cx == tri[3].x - p.x
      cy == tri[3].y - p.y
      det == (ax * ax + ay * ay) * (bx * cy - cx * by)
             - (bx * bx + by * by) * (ax * cy - cx * ay)
             + (cx * cx + cy * cy) * (ax * by - bx * ay)
  IN  det > 0

\* the inner loop over t = triangles.length - 1 .. 0: the edges of the
\* removed triangles, in the order they are pushed
RECURSIVE RemovedEdges(_, _, _)
RemovedEdges(tris, p, t) ==
  IF t = 0 THEN <<>>
  ELSE IF inCircumcircle(p, tris[t])
       THEN << <<tris[t][1], tris[t][2]>>, <<tris[t][2], tris[t][3]>>,
               <<tris[t][3], tris[t][1]>> >> \o RemovedEdges(tris, p, t - 1)
       ELSE RemovedEdges(tris, p, t - 1)

UniqueEdges(edges) ==
  LET idx == SelectSeq([j \in 1..Len(edges) |-> j],
                       LAMBDA j : ~\E k \in 1..Len(edges) :
                                      j # k /\ edgesEqual(edges[j], edges[k]))
  IN  [n \in 1..Len(idx) |-> edges[idx[n]]]

SdInsert(tris, p) ==
  LET edges  == RemovedEdges(tris, p, Len(tris))
      unique == UniqueEdges(edges)
  IN  SelectSeq(tris, LAMBDA t : ~inCircumcircle(p, t))
        \o [n \in 1..Len(unique) |-> <<unique[n][1], unique[n][2], p>>]

SdLimit == 500

RECURSIVE SdLoop(_, _, _)
SdLoop(tris, pts, i) ==
  IF i < Len(pts) /\ i < SdLimit
  THEN SdLoop(SdInsert(tris, pts[i + 1]), pts, i + 1)
  ELSE tris

\* the array after the call (sorted in place unless the call returned early)
SdPointsAfter(pts) == IF Len(pts) < 3 THEN pts ELSE SortPoints(pts)

simpleDelaunay(pts) ==
  IF Len(pts) < 3 THEN <<>>
  ELSE LET sorted == SortPoints(pts)
           first  == IF Len(sorted) >= 3
                     THEN << <<sorted[1], sorted[2], sorted[3]>> >>
                     ELSE <<>>
       IN  SdLoop(first, sorted, 3)

(***************************************************************************)
(* The calls as a state machine.                                           *)
(*   pc = "start"  : Delaunay.triangulate(points) has been called          *)
(*   pc = "insert" : inside the for-loop over the points (line 38)         *)
(*   pc = "done"   : triangulate has returned result                       *)
(*   pc = "sdDone" : simpleDelaunay(sdPoints) has returned sdResult        *)
(***************************************************************************)
NoCircleCall == [circle |-> circumcircle(<<MkPoint(0, 0, 1), MkPoint(0, 0, 2), MkPoint(0, 0, 3)>>),
                 inside |-> FALSE]

CircleIdle ==
  /\ ccArgs = [vertices |-> <<>>, point |-> MkPoint(0, 0, 0)]
  /\ ccRet = NoCircleCall

NoMesh == [kind |-> "none", vertices |-> <<>>, indices |-> <<>>, triangleCount |-> 0]

DefaultConfig ==
  [enableTiling |-> FALSE, printerBedWidth |-> 220, printerBedHeight |-> 220,
   tileOverlap |-> 2, outputWidthMM |-> 200, outputHeightMM |-> 200]

DefaultCfg ==
  [reliefMethod |-> "angled", baseThickness |-> 3, maxReliefHeight |-> 12,
   outputWidthMM |-> 200, outputHeightMM |-> 200, tileOverlap |-> 2]

MeshIdle ==
  /\ config = DefaultConfig
  /\ call = [fn |-> "none", tileCol |-> 0, tileRow |-> 0]
  /\ geometry = <<>>
  /\ cfg = DefaultCfg
  /\ buildTris = <<>>
  /\ buildCfg = DefaultCfg
  /\ verts = <<>>
  /\ inds = <<>>
  /\ nextTri = 0
  /\ vertexOffset = 0
  /\ mesh = NoMesh
  /\ reported = 0
  /\ rawZ = <<>>

TiltIdle ==
  /\ tiltCfg = [facetSharpness |-> 5, maxTiltAngle |-> 35]
  /\ tiltBright = <<>>
  /\ angledTilts = <<>>
  /\ hybridTilts = <<>>

\* the config of the React component (js/app.js, lines 36-53), on a small image
GenConfig(shapeType) ==
  [width |-> 12, height |-> 6, minShapeSize |-> 6, maxShapeSize |-> 10,
   shapeType |-> shapeType, tiltAngle |-> 0, maxHeight |-> 10,
   heightExaggeration |-> 15, baseThickness |-> 3]

GenIdle ==
  /\ genCfg = GenConfig("voronoi")
  /\ edgeQueue = <<>>
  /\ edgeNext = 0
  /\ edgePointCount = 0
  /\ gpPoints = <<>>
  /\ gpGrid = {}
  /\ regNext = 0

\* a JavaScript number that a division can produce: an integer, Infinity, NaN
Num(n) == [kind |-> "int", n |-> n]
Infinity == [kind |-> "inf", n |-> 0]
NaN == [kind |-> "nan", n |-> 0]

NoTileInfo == [cols |-> Num(0), rows |-> Num(0), tiles |-> <<>>, usableDefined |-> FALSE]

InfoIdle ==
  /\ tiCols = Num(0)
  /\ tiRows = Num(0)
  /\ tiRow = 0
  /\ tiCol = 0
  /\ tiTiles = <<>>
  /\ tileInfo = NoTileInfo

ManagerIdle ==
  /\ listeners = <<>>
  /\ unsubscribers = <<>>
  /\ invoked = <<>>
  /\ returned = [op |-> "none"]

OtherIdle == TiltIdle /\ GenIdle /\ InfoIdle /\ ManagerIdle

DelaunayIdle ==
  /\ points = <<>>
  /\ sdPoints = <<>>
  /\ triangles = <<>>
  /\ nextPt = 0
  /\ result = <<>>
  /\ sdResult = <<>>

InitD ==
  /\ points \in Inputs
  /\ sdPoints = points
  /\ pc = "start"
  /\ triangles = <<>>
  /\ nextPt = 0
  /\ result = <<>>
  /\ sdResult = <<>>
  /\ CircleIdle
  /\ MeshIdle
  /\ OtherIdle

\* lines 5-6: early return
TriangulateReturnEmpty ==
  /\ pc = "start"
  /\ TooFewPoints(points)
  /\ result' = <<>>
  /\ pc' = "done"
  /\ UNCHANGED <<points, triangles, nextPt, sdPoints, sdResult>>
  /\ UNCHANGED <<circleVars, meshVars, otherVars>>

\* lines 8-35
TriangulateBegin ==
  /\ pc = "start"
  /\ ~TooFewPoints(points)
  /\ triangles' = InitialTriangles(points)
  /\ nextPt' = 1
  /\ pc' = "insert"
  /\ UNCHANGED <<points, result, sdPoints, sdResult>>
  /\ UNCHANGED <<circleVars, meshVars, otherVars>>

\* lines 38-40, one iteration
TriangulateAddPoint ==
  /\ pc = "insert"
  /\ nextPt <= Len(points)
  /\ triangles' = addPoint(triangles, points[nextPt])
  /\ nextPt' = nextPt + 1
  /\ UNCHANGED <<pc, points, result, sdPoints, sdResult>>
  /\ UNCHANGED <<circleVars, meshVars, otherVars>>

\* lines 42-47
TriangulateFinish ==
  /\ pc = "insert"
  /\ nextPt > Len(points)
  /\ result' = RemoveSuper(triangles)
  /\ pc' = "done"
  /\ UNCHANGED <<points, triangles, nextPt, sdPoints, sdResult>>
  /\ UNCHANGED <<circleVars, meshVars, otherVars>>

\* GeometryGenerator.simpleDelaunay(sdPoints), the whole call
SimpleDelaunayCall ==
  /\ pc = "done"
  /\ sdResult' = simpleDelaunay(sdPoints)
  /\ sdPoints' = SdPointsAfter(sdPoints)
  /\ pc' = "sdDone"
  /\ UNCHANGED <<points, triangles, nextPt, result>>
  /\ UNCHANGED <<circleVars, meshVars, otherVars>>

NextD ==
  \/ TriangulateReturnEmpty
  \/ TriangulateBegin
  \/ TriangulateAddPoint
  \/ TriangulateFinish
  \/ SimpleDelaunayCall

SpecD == InitD /\ [][NextD]_vars

(***************************************************************************)
(* Geometry used to state the properties (exact, on stored coordinates).   *)
(***************************************************************************)
Returned == pc \in {"done", "sdDone"}

Cross(o, a, b) == (a.x - o.x) * (b.y - o.y) - (a.y - o.y) * (b.x - o.x)

Abs(n) == IF n < 0 THEN 0 - n ELSE n

TriArea2(t) == Abs(Cross(t.vertices[1], t.vertices[2], t.vertices[3]))

SamePos(p, q) == p.x = q.x /\ p.y = q.y

\* p strictly inside the circle through a, b, c (in-circle determinant)
StrictlyInside(p, a, b, c) ==
  LET ax == a.x - p.x
      ay == a.y - p.y
      bx == b.x - p.x
      by == b.y - p.y
      cx == c.x - p.x
      cy == c.y - p.y
      det == (ax * ax + ay * ay) * (bx * cy - cx * by)
             - (bx * bx + by * by) * (ax * cy - cx * ay)
             + (cx * cx + cy * cy) * (ax * by - bx * ay)
  IN  Sign(Cross(a, b, c)) * det > 0

RECURSIVE SumArea2(_)
SumArea2(tris) == IF Len(tris) = 0 THEN 0 ELSE TriArea2(tris[1]) + SumArea2(Tail(tris))

PosSet(pts) == {<<pts[k].x, pts[k].y>> : k \in 1..Len(pts)}

\* directed edges of the convex hull boundary, counter-clockwise
HullEdges(P) ==
  {e \in P \X P :
     /\ e[1] # e[2]
     /\ \A r \in P :
          LET c == (e[2][1] - e[1][1]) * (r[2] - e[1][2])
                   - (e[2][2] - e[1][2]) * (r[1] - e[1][1])
              t == (r[1] - e[1][1]) * (e[2][1] - e[1][1])
                   + (r[2] - e[1][2]) * (e[2][2] - e[1][2])
              l == (e[2][1] - e[1][1]) * (e[2][1] - e[1][1])
                   + (e[2][2] - e[1][2]) * (e[2][2] - e[1][2])
          IN  c >= 0 /\ (c = 0 => (t >= 0 /\ t <= l))}

RECURSIVE ShoelaceSum(_)
ShoelaceSum(E) ==
  IF E = {} THEN 0
  ELSE LET e == CHOOSE f \in E : TRUE
       IN  (e[1][1] * e[2][2] - e[2][1] * e[1][2]) + ShoelaceSum(E \ {e})

\* twice the area of the convex hull of the points
HullArea2(pts) == ShoelaceSum(HullEdges(PosSet(pts)))

\* interiors of two non-degenerate triangles are disjoint: some edge of one
\* triangle has the other triangle on its outer side
OuterSide(A, B) ==
  LET s == Sign(Cross(A.vertices[1], A.vertices[2], A.vertices[3]))
  IN  \E i \in 0..2 :
        \A k \in 1..3 :
          s * Cross(A.vertices[i + 1], A.vertices[((i + 1) % 3) + 1], B.vertices[k]) <= 0

DisjointInteriors(A, B) == OuterSide(A, B) \/ OuterSide(B, A)

PairwiseDisjoint(tris) ==
  \A i, j \in 1..Len(tris) : i < j => DisjointInteriors(tris[i], tris[j])

VerticesAreInputs(tris, pts) ==
  \A i \in 1..Len(tris) : \A k \in 1..3 :
     \E n \in 1..Len(pts) : tris[i].vertices[k] = pts[n]

\* the set of triangles as sets of vertex positions
TriPositions(tris) == {PosSet(tris[i].vertices) : i \in 1..Len(tris)}

(***************************************************************************)
(* C1  Delaunay property: once triangulate has returned for a list of at   *)
(* least 3 points, no input point that is not a vertex of a returned       *)
(* triangle lies strictly inside that triangle's circumcircle.             *)
(***************************************************************************)
C1_DelaunayProperty ==
  (Returned /\ Len(points) >= 3) =>
     \A i \in 1..Len(result) : \A n \in 1..Len(points) :
        (\A k \in 1..3 : result[i].vertices[k].id # points[n].id)
          => ~StrictlyInside(points[n], result[i].vertices[1],
                             result[i].vertices[2], result[i].vertices[3])

\* a returned triangulation of at least two triangles whose input holds
\* three points with a fourth strictly inside their circumcircle
W_C1 ==
  /\ pc = "done"
  /\ Len(result) >= 2
  /\ \E a, b, c, n \in 1..Len(points) :
        /\ Cross(points[a], points[b], points[c]) # 0
        /\ StrictlyInside(points[n], points[a], points[b], points[c])

(***************************************************************************)
(* C2  The returned list is a triangulation of the convex hull of the      *)
(* input: vertices are input points, interiors are pairwise disjoint and   *)
(* the triangles cover the hull (their areas add up to the hull's area).   *)
(***************************************************************************)
C2_TriangulatesHull ==
  (Returned /\ Len(points) >= 3) =>
     /\ VerticesAreInputs(result, points)
     /\ PairwiseDisjoint(result)
     /\ SumArea2(result) = HullArea2(points)

(***************************************************************************)
(* C3  With fewer than 3 points both triangulators return the empty list,  *)
(* and triangulate returns at once: no working triangle list is built.     *)
(***************************************************************************)
C3_FewPointsEmpty ==
  /\ (Returned /\ Len(points) < 3) => (result = <<>> /\ triangles = <<>> /\ nextPt = 0)
  /\ (pc = "sdDone" /\ Len(sdPoints) < 3) => sdResult = <<>>

\* both calls have returned for a list of two points
W_C3 == pc = "sdDone" /\ Len(points) = 2 /\ result = <<>> /\ sdResult = <<>>

(***************************************************************************)
(* C5  For the four corners of the unit square, in any order, triangulate  *)
(* returns exactly 2 triangles that share one diagonal of the square and   *)
(* cover the square without overlap.                                       *)
(***************************************************************************)
UnitSquareCorners == {<<0, 0>>, <<2, 0>>, <<0, 2>>, <<2, 2>>}

IsUnitSquareInput(pts) == Len(pts) = 4 /\ PosSet(pts) = UnitSquareCorners

SharedDiagonal(A, B) ==
  \E i, j \in 0..2 :
     LET e == <<A.vertices[i + 1], A.vertices[((i + 1) % 3) + 1]>>
         f == <<B.vertices[j + 1], B.vertices[((j + 1) % 3) + 1]>>
     IN  /\ edgesEqual(e, f)
         /\ e[1].x # e[2].x
         /\ e[1].y # e[2].y

C5_UnitSquareTwoTriangles ==
  (Returned /\ IsUnitSquareInput(points)) =>
     /\ Len(result) = 2
     /\ VerticesAreInputs(result, points)
     /\ SharedDiagonal(result[1], result[2])
     /\ DisjointInteriors(result[1], result[2])
     /\ SumArea2(result) = 8

W_C5 == pc = "done" /\ IsUnitSquareInput(points) /\ Len(result) = 2

(***************************************************************************)
(* C6  Ties are broken by lexicographic point order: the set of returned   *)
(* triangles is the one obtained for the lexicographically sorted list,    *)
(* whatever the order of the input list.                                   *)
(***************************************************************************)
C6_OrderIndependent ==
  (Returned /\ Len(points) >= 3) =>
     TriPositions(result) = TriPositions(triangulate(SortPoints(points)))

(***************************************************************************)
(* Direct calls of the two circle functions on arbitrary vertex triples.   *)
(*   pc = "ccStart"  : arguments chosen                                    *)
(*   pc = "ccCircle" : circumcircle(vertices) has returned                 *)
(*   pc = "ccDone"   : pointInCircumcircle(point, circle) has returned     *)
(***************************************************************************)
InitC ==
  /\ pc = "ccStart"
  /\ \E a, b, c, p \in Grid :
        ccArgs = [vertices |-> <<MkPoint(a[1], a[2], 1), MkPoint(b[1], b[2], 2),
                                 MkPoint(c[1], c[2], 3)>>,
                  point |-> MkPoint(p[1], p[2], 4)]
  /\ ccRet = NoCircleCall
  /\ DelaunayIdle
  /\ MeshIdle
  /\ OtherIdle

CircumcircleCall ==
  /\ pc = "ccStart"
  /\ ccRet' = [ccRet EXCEPT !.circle = circumcircle(ccArgs.vertices)]
  /\ pc' = "ccCircle"
  /\ UNCHANGED <<ccArgs, delaunayVars, meshVars, otherVars>>

PointInCircumcircleCall ==
  /\ pc = "ccCircle"
  /\ ccRet' = [ccRet EXCEPT !.inside = pointInCircumcircle(ccArgs.point, ccRet.circle)]
  /\ pc' = "ccDone"
  /\ UNCHANGED <<ccArgs, delaunayVars, meshVars, otherVars>>

NextC == CircumcircleCall \/ PointInCircumcircleCall

SpecC == InitC /\ [][NextC]_vars

(***************************************************************************)
(* C4  A degenerate triangle (collinear or coincident vertices) gets an    *)
(* infinite-radius circumcircle that contains no point: for every point p  *)
(* pointInCircumcircle(p, circumcircle(vertices)) is false.                *)
(***************************************************************************)
Degenerate(vertices) == Cross(vertices[1], vertices[2], vertices[3]) = 0

C4_DegenerateNeverContains ==
  (pc = "ccDone" /\ Degenerate(ccArgs.vertices)) =>
     (ccRet.circle.inf /\ ~ccRet.inside)

(***************************************************************************)
(* MeshBuilder (js/meshBuilder.js).                                        *)
(*                                                                         *)
(* Units.  Normalised x, y and the millimetre x, y of the mesh are stored  *)
(* doubled (as above).  Brightness and every z are stored in 1/30: a       *)
(* brightness of 0, 0.5, 1 is 0, 15, 30 and z = 3 mm is 90.  A triangle    *)
(* centre is stored in 1/6 (the sum of the three doubled coordinates).     *)
(* The Float32Array / Uint32Array conversion of the result is not          *)
(* modelled.                                                               *)
(***************************************************************************)
MaxFacets == 2    \* longest triangle / shape list handed to a mesh call

\* a triangle of the triangulator with the per-point brightness attached;
\* centre and brightness as Delaunay.toIndexedGeometry derives them
MeshTriangle(t, bright) ==
  LET v == [k \in 1..3 |-> [x |-> t.vertices[k].x, y |-> t.vertices[k].y,
                            brightness |-> bright[t.vertices[k].id]]]
  IN  [vertices |-> v,
       center |-> [x |-> v[1].x + v[2].x + v[3].x, y |-> v[1].y + v[2].y + v[3].y],
       brightness |-> (v[1].brightness + v[2].brightness + v[3].brightness) \div 3]

\* the unit-square scenario: corners with brightness 0, 0, 1, 1
ScenarioPoints == ToPoints(<< <<0, 0>>, <<1, 0>>, <<1, 1>>, <<0, 1>> >>)
ScenarioBrightness == <<0, 0, 30, 30>>
ScenarioTriangles ==
  LET t == triangulate(ScenarioPoints)
  IN  [k \in 1..Len(t) |-> MeshTriangle(t[k], ScenarioBrightness)]

\* the same corners in another order (other diagonal), brightness 1, .5, 0, .5
OtherPoints == ToPoints(<< <<0, 0>>, <<1, 0>>, <<0, 1>>, <<1, 1>> >>)
OtherBrightness == <<30, 15, 0, 15>>
OtherTriangles ==
  LET t == triangulate(OtherPoints)
  IN  [k \in 1..Len(t) |-> MeshTriangle(t[k], OtherBrightness)]

FacetPool ==
  {ScenarioTriangles[k] : k \in 1..Len(ScenarioTriangles)}
    \cup {OtherTriangles[k] : k \in 1..Len(OtherTriangles)}

TriangleLists == UNION {[1..n -> FacetPool] : n \in 0..MaxFacets}

\* triangles that lost their third vertex, and the lists that hold one
InvalidPool == {[t EXCEPT !.vertices = SubSeq(t.vertices, 1, 2)] : t \in FacetPool}

InvalidLists ==
  {l \in UNION {[1..n -> FacetPool \cup InvalidPool] : n \in 1..MaxFacets} :
     \E k \in 1..Len(l) : l[k] \in InvalidPool}

\* a triangle with a vertex at x = 0.5, which is within 0.01 of the boxes of
\* columns 24 and 26 of 51 and inside the box of column 25, and one without
SeamPoints ==
  [k \in 1..4 |-> [x |-> <<1, 2, 2, 0>>[k], y |-> <<0, 0, 2, 2>>[k], id |-> k,
                   isSuper |-> FALSE]]

SeamPool ==
  { MeshTriangle([vertices |-> <<SeamPoints[1], SeamPoints[2], SeamPoints[3]>>],
                 ScenarioBrightness),
    MeshTriangle([vertices |-> <<SeamPoints[2], SeamPoints[3], SeamPoints[4]>>],
                 ScenarioBrightness) }

SeamLists == UNION {[1..n -> SeamPool] : n \in 0..MaxFacets}

\* const toMM = (v) => ...   (lines 29-32)
toMM(v, c) == [x |-> (v.x - 1) * c.outputWidthMM, y |-> (v.y - 1) * c.outputHeightMM]

\* variant: base index taken as the array length
addSideFace_rawLength(m, pa, pb, za0, zb0, za1, zb1) ==
  LET bi == Len(m.verts)
  IN  [verts |-> m.verts \o <<pa.x, pa.y, za0,  pb.x, pb.y, zb0,
                              pb.x, pb.y, zb1,  pa.x, pa.y, za1>>,
       inds  |-> m.inds \o <<bi, bi + 1, bi + 2,  bi, bi + 2, bi + 3>>]

\* variant: only the first triangle of the quad is emitted
addSideFace_oneTriangle(m, pa, pb, za0, zb0, za1, zb1) ==
  LET bi == Len(m.verts) \div 3
  IN  [verts |-> m.verts \o <<pa.x, pa.y, za0,  pb.x, pb.y, zb0,
                              pb.x, pb.y, zb1,  pa.x, pa.y, za1>>,
       inds  |-> m.inds \o <<bi, bi + 1, bi + 2>>]

\* variant: the second triangle is cut along the other diagonal
addSideFace_otherDiagonal(m, pa, pb, za0, zb0, za1, zb1) ==
  LET bi == Len(m.verts) \div 3
  IN  [verts |-> m.verts \o <<pa.x, pa.y, za0,  pb.x, pb.y, zb0,
                              pb.x, pb.y, zb1,  pa.x, pa.y, za1>>,
       inds  |-> m.inds \o <<bi, bi + 1, bi + 2,  bi + 1, bi + 2, bi + 3>>]

\* MeshBuilder.addSideFace; m is the pair of arrays (verts, inds)
addSideFace(m, pa, pb, za0, zb0, za1, zb1) ==
  LET bi == Len(m.verts) \div 3
  IN  [verts |-> m.verts \o <<pa.x, pa.y, za0,  pb.x, pb.y, zb0,
                              pb.x, pb.y, zb1,  pa.x, pa.y, za1>>,
       inds  |-> m.inds \o <<bi, bi + 1, bi + 2,  bi, bi + 2, bi + 3>>]

\* variant: the third side wall is left out
PushPrism_twoWalls(m, p0, p1, p2, z0, z1, z2) ==
  LET bi == Len(m.verts) \div 3
      m1 == [verts |-> m.verts \o <<p0.x, p0.y, 0,  p1.x, p1.y, 0,  p2.x, p2.y, 0,
                                    p0.x, p0.y, z0, p1.x, p1.y, z1, p2.x, p2.y, z2>>,
             inds  |-> m.inds \o <<bi + 3, bi + 4, bi + 5,  bi + 0, bi + 2, bi + 1>>]
      m2 == addSideFace(m1, p0, p1, 0, 0, z0, z1)
  IN  addSideFace(m2, p1, p2, 0, 0, z1, z2)

\* variant: the bottom face keeps the winding of the top face
PushPrism_bottomNotReversed(m, p0, p1, p2, z0, z1, z2) ==
  LET bi == Len(m.verts) \div 3
      m1 == [verts |-> m.verts \o <<p0.x, p0.y, 0,  p1.x, p1.y, 0,  p2.x, p2.y, 0,
                                    p0.x, p0.y, z0, p1.x, p1.y, z1, p2.x, p2.y, z2>>,
             inds  |-> m.inds \o <<bi + 3, bi + 4, bi + 5,  bi + 0, bi + 1, bi + 2>>]
      m2 == addSideFace(m1, p0, p1, 0, 0, z0, z1)
      m3 == addSideFace(m2, p1, p2, 0, 0, z1, z2)
  IN  addSideFace(m3, p2, p0, 0, 0, z2, z0)

\* the vertex / index pushes shared by the three facet builders
\* (lines 131-153, 187-201, 210-224)
PushPrism(m, p0, p1, p2, z0, z1, z2) ==
  LET bi == Len(m.verts) \div 3
      m1 == [verts |-> m.verts \o <<p0.x, p0.y, 0,  p1.x, p1.y, 0,  p2.x, p2.y, 0,
                                    p0.x, p0.y, z0, p1.x, p1.y, z1, p2.x, p2.y, z2>>,
             inds  |-> m.inds \o <<bi + 3, bi + 4, bi + 5,  bi + 0, bi + 2, bi + 1>>]
      m2 == addSideFace(m1, p0, p1, 0, 0, z0, z1)
      m3 == addSideFace(m2, p1, p2, 0, 0, z1, z2)
  IN  addSideFace(m3, p2, p0, 0, 0, z2, z0)

\* addHeightmapFacet, lines 206-208: baseZ + b * maxHeight
HeightOfVertex(b, baseZ, maxHeight) == 30 * baseZ + b * maxHeight

\* variant: one height for the whole facet, from the first vertex
addHeightmapFacet_flat(m, p0, p1, p2, b0, b1, b2, baseZ, maxHeight) ==
  LET z0 == HeightOfVertex(b0, baseZ, maxHeight)
  IN  PushPrism(m, p0, p1, p2, z0, z0, z0)

\* MeshBuilder.addHeightmapFacet
addHeightmapFacet(m, p0, p1, p2, b0, b1, b2, baseZ, maxHeight) ==
  LET z0 == HeightOfVertex(b0, baseZ, maxHeight)
      z1 == HeightOfVertex(b1, baseZ, maxHeight)
      z2 == HeightOfVertex(b2, baseZ, maxHeight)
  IN  PushPrism(m, p0, p1, p2, z0, z1, z2)

(***************************************************************************)
(* addAngledFacet / addHybridFacet.  calcZ uses Math.pow and Math.tan of    *)
(* the brightness, the tilt angle and the light direction; the three       *)
(* values calcZ returns are the parameter raw, which the actions draw      *)
(* from CalcZSamples, so that every combination of below / above the       *)
(* minimum-thickness threshold occurs.  Everything after calcZ is as in    *)
(* the code.                                                               *)
(***************************************************************************)
CalcZSamples ==
  { <<150, 150, 150>>, <<240, 120, 30>>, <<0 - 60, 30, 120>>, <<30, 300, 0 - 300>> }

Min3(a, b, c) == Min2(a, Min2(b, c))

\* variant: each vertex below the threshold is lifted to it on its own
addAngledFacet_perVertex(m, p0, p1, p2, raw, baseZ) ==
  PushPrism(m, p0, p1, p2, Max2(raw[1], 15 * baseZ), Max2(raw[2], 15 * baseZ),
            Max2(raw[3], 15 * baseZ))

\* MeshBuilder.addAngledFacet, lines 123-153
addAngledFacet(m, p0, p1, p2, raw, baseZ) ==
  LET z0 == raw[1]
      z1 == raw[2]
      z2 == raw[3]
      minZ == Min3(z0, z1, z2)
      \* baseZ * 0.5
      zOffset == IF minZ < 15 * baseZ THEN 15 * baseZ - minZ ELSE 0
  IN  PushPrism(m, p0, p1, p2, z0 + zOffset, z1 + zOffset, z2 + zOffset)

\* MeshBuilder.addHybridFacet, lines 180-201
addHybridFacet(m, p0, p1, p2, raw, baseZ) ==
  LET z0 == raw[1]
      z1 == raw[2]
      z2 == raw[3]
      minZ == Min3(z0, z1, z2)
      \* baseZ * 0.3
      zOffset == IF minZ < 9 * baseZ THEN 9 * baseZ - minZ ELSE 0
  IN  PushPrism(m, p0, p1, p2, z0 + zOffset, z1 + zOffset, z2 + zOffset)

(***************************************************************************)
(* ConfigManager.getTileInfo (js/config.js) for a bed larger than the      *)
(* overlap, and the tile selection of MeshBuilder.buildTile.               *)
(***************************************************************************)
\* Math.ceil(a / b) for a >= 0 and b > 0
CeilDiv(a, b) == (a + b - 1) \div b

getTileInfo(c) ==
  IF ~c.enableTiling
  THEN [cols |-> 1, rows |-> 1, tiles |-> << [col |-> 0, row |-> 0] >>,
        usableWidth |-> 0, usableHeight |-> 0, usableDefined |-> FALSE]
  ELSE LET usableWidth  == c.printerBedWidth - c.tileOverlap
           usableHeight == c.printerBedHeight - c.tileOverlap
           cols == CeilDiv(c.outputWidthMM, usableWidth)
           rows == CeilDiv(c.outputHeightMM, usableHeight)
       IN  [cols |-> cols, rows |-> rows,
            tiles |-> [k \in 1..(rows * cols) |->
                         [col |-> (k - 1) % cols, row |-> (k - 1) \div cols, index |-> k - 1]],
            usableWidth |-> usableWidth, usableHeight |-> usableHeight,
            usableDefined |-> TRUE]

\* inTile(v): the tile box widened by 0.01 (x = v.x / 2, minX = col / cols)
inTile(v, info, tileCol, tileRow) ==
  /\ 50 * info.cols * v.x >= 100 * tileCol - info.cols
  /\ 50 * info.cols * v.x <= 100 * (tileCol + 1) + info.cols
  /\ 50 * info.rows * v.y >= 100 * tileRow - info.rows
  /\ 50 * info.rows * v.y <= 100 * (tileRow + 1) + info.rows

centerInTile(ctr, info, tileCol, tileRow) ==
  /\ ctr.x * info.cols >= 6 * tileCol
  /\ ctr.x * info.cols <= 6 * (tileCol + 1)
  /\ ctr.y * info.rows >= 6 * tileRow
  /\ ctr.y * info.rows <= 6 * (tileRow + 1)

\* variant: the centre is not looked at
Retained_verticesOnly(tri, info, tileCol, tileRow) ==
  \/ inTile(tri.vertices[1], info, tileCol, tileRow)
  \/ inTile(tri.vertices[2], info, tileCol, tileRow)
  \/ inTile(tri.vertices[3], info, tileCol, tileRow)

Retained(tri, info, tileCol, tileRow) ==
  \/ inTile(tri.vertices[1], info, tileCol, tileRow)
  \/ inTile(tri.vertices[2], info, tileCol, tileRow)
  \/ inTile(tri.vertices[3], info, tileCol, tileRow)
  \/ centerInTile(tri.center, info, tileCol, tileRow)

\* (v.x - minX) / tileWidthNorm = v.x * cols - col
\* variant: minX and minY are not subtracted
Remap_scaleOnly(tri, info, tileCol, tileRow) ==
  [tri EXCEPT
     !.vertices = [k \in 1..3 |->
                     [tri.vertices[k] EXCEPT
                        !.x = tri.vertices[k].x * info.cols,
                        !.y = tri.vertices[k].y * info.rows]],
     !.center = [x |-> tri.center.x * info.cols,
                 y |-> tri.center.y * info.rows]]

Remap(tri, info, tileCol, tileRow) ==
  [tri EXCEPT
     !.vertices = [k \in 1..3 |->
                     [tri.vertices[k] EXCEPT
                        !.x = tri.vertices[k].x * info.cols - 2 * tileCol,
                        !.y = tri.vertices[k].y * info.rows - 2 * tileRow]],
     !.center = [x |-> tri.center.x * info.cols - 6 * tileCol,
                 y |-> tri.center.y * info.rows - 6 * tileRow]]

tileTriangles(tris, info, tileCol, tileRow) ==
  LET kept == SelectSeq(tris, LAMBDA t : Retained(t, info, tileCol, tileRow))
  IN  [k \in 1..Len(kept) |-> Remap(kept[k], info, tileCol, tileRow)]

tileCfg(c, info) ==
  [c EXCEPT !.outputWidthMM = info.usableWidth + c.tileOverlap,
            !.outputHeightMM = info.usableHeight + c.tileOverlap]

(***************************************************************************)
(* GeometryGenerator.generate3DGeometry, the mesh loop (lines 373-452).    *)
(* A shape is [vertices, brightness]; the top z of a vertex                *)
(* (localHeight + tiltX + tiltY, floating point in the tilt angle) is the  *)
(* parameter zs, drawn by the action from G3ZSamples.                      *)
(***************************************************************************)
RECURSIVE Flatten(_)
Flatten(ss) == IF Len(ss) = 0 THEN <<>> ELSE ss[1] \o Flatten(Tail(ss))

ShapePool ==
  { [vertices |-> << [x |-> 0, y |-> 0], [x |-> 2, y |-> 0] >>, brightness |-> 15],
    [vertices |-> << [x |-> 0, y |-> 0], [x |-> 2, y |-> 0], [x |-> 2, y |-> 2] >>,
     brightness |-> 30],
    [vertices |-> << [x |-> 0, y |-> 0], [x |-> 2, y |-> 0], [x |-> 2, y |-> 2],
                     [x |-> 0, y |-> 2] >>, brightness |-> 0] }

ShapeLists == UNION {[1..n -> ShapePool] : n \in 0..MaxFacets}

G3ZSamples == {90, 150}

G3Config ==
  [width |-> 1, height |-> 1, tiltAngle |-> 15, maxHeight |-> 10,
   heightExaggeration |-> 15, baseThickness |-> 3]

\* lines 388-390, 404-417: without tilt (tiltAngle = 0) every top z of the
\* shape is  brightness * maxHeight * heightExaggeration + baseThickness
G3Heights(shape, c) ==
  IF c.tiltAngle = 0
  THEN {[k \in 1..Len(shape.vertices) |->
           (shape.brightness * c.maxHeight * c.heightExaggeration) \div 10
             + 30 * c.baseThickness]}
  ELSE [1..Len(shape.vertices) -> G3ZSamples]

g3AddShape(m, off, shape, zs, c) ==
  LET vs == shape.vertices
      n  == Len(vs)
      bottom == Flatten([k \in 1..n |-> <<vs[k].x - c.width, vs[k].y - c.height, 0>>])
      top    == Flatten([k \in 1..n |-> <<vs[k].x - c.width, vs[k].y - c.height, zs[k]>>])
      topFan == Flatten([k \in 1..(n - 1) |-> <<off + n, off + n + (k - 1), off + n + k>>])
                  \o <<off + n, off + n + n - 1, off + n>>
      botFan == Flatten([k \in 1..(n - 1) |-> <<off, off + k, off + (k - 1)>>])
                  \o <<off, off, off + n - 1>>
      sides  == Flatten([k \in 1..n |->
                   LET i == k - 1
                       next == (i + 1) % n
                   IN  <<off + i, off + next, off + n + next,
                         off + i, off + n + next, off + n + i>>])
  IN  [verts |-> m.verts \o bottom \o top,
       inds  |-> m.inds \o topFan \o botFan \o sides]

(***************************************************************************)
(* The mesh calls as a state machine.                                      *)
(*   pc = "tileStart" : MeshBuilder.buildTile(geometry, cfg, col, row)     *)
(*   pc = "mbStart"   : MeshBuilder.build(buildTris, buildCfg) entered     *)
(*   pc = "mbLoop"    : inside the loop over the triangles (line 22)       *)
(*   pc = "g3Shapes"  : generate3DGeometry has computed its shapes         *)
(*   pc = "g3Loop"    : inside shapes.forEach (line 382)                   *)
(*   pc = "meshDone"  : the call has returned mesh                         *)
(*   pc = "mbThrown"  : an exception has left MeshBuilder.build            *)
(***************************************************************************)
Methods == {"angled", "heightmap", "hybrid"}

MeshConfigs ==
  { DefaultConfig,
    [DefaultConfig EXCEPT !.enableTiling = TRUE],
    [DefaultConfig EXCEPT !.enableTiling = TRUE, !.outputWidthMM = 400],
    [DefaultConfig EXCEPT !.enableTiling = TRUE, !.outputWidthMM = 600,
                          !.outputHeightMM = 400] }

\* an output of 51 columns in one row
SeamConfig == [DefaultConfig EXCEPT !.enableTiling = TRUE, !.outputWidthMM = 11000]

\* Exporters.exportAllTiles: one build, or one buildTile per tile
ExportCalls(c) ==
  LET info == getTileInfo(c)
  IN  IF Len(info.tiles) = 1
      THEN {[fn |-> "build", tileCol |-> 0, tileRow |-> 0]}
      ELSE {[fn |-> "buildTile", tileCol |-> info.tiles[k].col, tileRow |-> info.tiles[k].row]
              : k \in 1..Len(info.tiles)}

InitM ==
  /\ DelaunayIdle
  /\ CircleIdle
  /\ OtherIdle
  /\ verts = <<>>
  /\ inds = <<>>
  /\ nextTri = 0
  /\ vertexOffset = 0
  /\ mesh = NoMesh
  /\ reported = 0
  /\ rawZ = <<>>
  /\ \/ /\ config \in MeshConfigs
        /\ call \in ExportCalls(config)
        /\ geometry \in TriangleLists
        /\ \E method \in Methods, base \in {0, 3}, relief \in {8, 12} :
              cfg = [reliefMethod |-> method, baseThickness |-> base,
                     maxReliefHeight |-> relief,
                     outputWidthMM |-> config.outputWidthMM,
                     outputHeightMM |-> config.outputHeightMM,
                     tileOverlap |-> config.tileOverlap]
        /\ buildTris = geometry
        /\ buildCfg = cfg
        /\ pc = IF call.fn = "build" THEN "mbStart" ELSE "tileStart"
     \/ /\ config = SeamConfig
        /\ call \in ExportCalls(config)
        /\ geometry \in SeamLists
        /\ cfg = [DefaultCfg EXCEPT !.reliefMethod = "heightmap",
                                   !.outputWidthMM = config.outputWidthMM]
        /\ buildTris = geometry
        /\ buildCfg = cfg
        /\ pc = "tileStart"
     \/ /\ config = DefaultConfig
        /\ call = [fn |-> "build", tileCol |-> 0, tileRow |-> 0]
        /\ geometry \in InvalidLists
        /\ \E method \in Methods : cfg = [DefaultCfg EXCEPT !.reliefMethod = method]
        /\ buildTris = geometry
        /\ buildCfg = cfg
        /\ pc = "mbStart"
     \/ /\ config = DefaultConfig
        /\ call = [fn |-> "generate3DGeometry", tileCol |-> 0, tileRow |-> 0]
        /\ geometry \in ShapeLists
        /\ cfg = G3Config
        /\ buildTris = <<>>
        /\ buildCfg = DefaultCfg
        /\ pc = "g3Shapes"

\* buildTile, lines 243-291: select, remap, then call build
BuildTileBegin ==
  /\ pc = "tileStart"
  /\ LET info == getTileInfo(config)
     IN  /\ buildTris' = tileTriangles(geometry, info, call.tileCol, call.tileRow)
         /\ buildCfg' = tileCfg(cfg, info)
  /\ pc' = "mbStart"
  /\ UNCHANGED <<config, call, geometry, cfg, verts, inds, nextTri, vertexOffset, mesh, reported, rawZ>>
  /\ UNCHANGED <<delaunayVars, circleVars, otherVars>>

\* build, lines 5-20
BuildBegin ==
  /\ pc = "mbStart"
  /\ verts' = <<>>
  /\ inds' = <<>>
  /\ nextTri' = 1
  /\ rawZ' = <<>>
  /\ pc' = "mbLoop"
  /\ UNCHANGED <<config, call, geometry, cfg, buildTris, buildCfg, vertexOffset, mesh, reported>>
  /\ UNCHANGED <<delaunayVars, circleVars, otherVars>>

\* one iteration of the loop, lines 22-61, for each of the three branches
\* lines 23, 34-36: const [v0, v1, v2] = tri.vertices leaves v2 undefined
\* for a triangle of fewer than 3 vertices, and toMM(v2) reads v.x of it:
\* a TypeError leaves build
BuildThrow ==
  /\ pc = "mbLoop"
  /\ nextTri <= Len(buildTris)
  /\ Len(buildTris[nextTri].vertices) < 3
  /\ mesh' = [NoMesh EXCEPT !.kind = "TypeError"]
  /\ pc' = "mbThrown"
  /\ UNCHANGED <<config, call, geometry, cfg, buildTris, buildCfg, verts, inds, nextTri, vertexOffset, reported, rawZ>>
  /\ UNCHANGED <<delaunayVars, circleVars, otherVars>>

BuildFacet(method, m, raw) ==
  /\ pc = "mbLoop"
  /\ nextTri <= Len(buildTris)
  /\ buildCfg.reliefMethod = method
  /\ verts' = m.verts
  /\ inds' = m.inds
  /\ rawZ' = Append(rawZ, raw)
  /\ nextTri' = nextTri + 1
  /\ UNCHANGED <<pc, config, call, geometry, cfg, buildTris, buildCfg, vertexOffset, mesh, reported>>
  /\ UNCHANGED <<delaunayVars, circleVars, otherVars>>

Arrays == [verts |-> verts, inds |-> inds]

BuildAngledFacet ==
  /\ pc = "mbLoop" /\ nextTri <= Len(buildTris)
  /\ Len(buildTris[nextTri].vertices) >= 3
  /\ \E raw \in CalcZSamples :
        LET tri == buildTris[nextTri]
        IN  BuildFacet("angled",
               addAngledFacet(Arrays, toMM(tri.vertices[1], buildCfg),
                              toMM(tri.vertices[2], buildCfg),
                              toMM(tri.vertices[3], buildCfg),
                              raw, buildCfg.baseThickness), raw)

BuildHybridFacet ==
  /\ pc = "mbLoop" /\ nextTri <= Len(buildTris)
  /\ Len(buildTris[nextTri].vertices) >= 3
  /\ \E raw \in CalcZSamples :
        LET tri == buildTris[nextTri]
        IN  BuildFacet("hybrid",
               addHybridFacet(Arrays, toMM(tri.vertices[1], buildCfg),
                              toMM(tri.vertices[2], buildCfg),
                              toMM(tri.vertices[3], buildCfg),
                              raw, buildCfg.baseThickness), raw)

BuildHeightmapFacet ==
  /\ pc = "mbLoop" /\ nextTri <= Len(buildTris)
  /\ Len(buildTris[nextTri].vertices) >= 3
  /\ LET tri == buildTris[nextTri]
     IN  BuildFacet("heightmap",
            addHeightmapFacet(Arrays, toMM(tri.vertices[1], buildCfg),
                              toMM(tri.vertices[2], buildCfg),
                              toMM(tri.vertices[3], buildCfg),
                              tri.vertices[1].brightness, tri.vertices[2].brightness,
                              tri.vertices[3].brightness,
                              buildCfg.baseThickness, buildCfg.maxReliefHeight),
            [k \in 1..3 |-> HeightOfVertex(tri.vertices[k].brightness,
                                           buildCfg.baseThickness, buildCfg.maxReliefHeight)])

\* variant: the vertex count reported as the triangle count
triangleCount_vertices(vs, is) == Len(vs) \div 3

\* triangleCount: indices.length / 3
triangleCount(vs, is) == Len(is) \div 3

\* build, lines 63-69
BuildReturn ==
  /\ pc = "mbLoop"
  /\ nextTri > Len(buildTris)
  /\ mesh' = [kind |-> "mesh", vertices |-> verts, indices |-> inds,
              triangleCount |-> triangleCount(verts, inds)]
  /\ reported' = Len(inds) \div 3
  /\ pc' = "meshDone"
  /\ UNCHANGED <<config, call, geometry, cfg, buildTris, buildCfg, verts, inds, nextTri, vertexOffset, rawZ>>
  /\ UNCHANGED <<delaunayVars, circleVars, otherVars>>

\* generate3DGeometry, lines 368-371: no shapes, return null
G3NoShapes ==
  /\ pc = "g3Shapes"
  /\ Len(geometry) = 0
  /\ mesh' = [NoMesh EXCEPT !.kind = "null"]
  /\ pc' = "meshDone"
  /\ UNCHANGED <<config, call, geometry, cfg, buildTris, buildCfg, verts, inds, nextTri, vertexOffset, reported, rawZ>>
  /\ UNCHANGED <<delaunayVars, circleVars, otherVars>>

\* lines 373-381
G3Begin ==
  /\ pc = "g3Shapes"
  /\ Len(geometry) # 0
  /\ verts' = <<>>
  /\ inds' = <<>>
  /\ vertexOffset' = 0
  /\ nextTri' = 1
  /\ pc' = "g3Loop"
  /\ UNCHANGED <<config, call, geometry, cfg, buildTris, buildCfg, mesh, reported, rawZ>>
  /\ UNCHANGED <<delaunayVars, circleVars, otherVars>>

\* lines 392-393: if (!verts || verts.length < 3) return
G3SkipShape ==
  /\ pc = "g3Loop"
  /\ nextTri <= Len(geometry)
  /\ Len(geometry[nextTri].vertices) < 3
  /\ nextTri' = nextTri + 1
  /\ UNCHANGED <<pc, config, call, geometry, cfg, buildTris, buildCfg, verts, inds, vertexOffset, mesh, reported, rawZ>>
  /\ UNCHANGED <<delaunayVars, circleVars, otherVars>>

\* lines 395-443
G3AddShape ==
  /\ pc = "g3Loop"
  /\ nextTri <= Len(geometry)
  /\ Len(geometry[nextTri].vertices) >= 3
  /\ \E zs \in G3Heights(geometry[nextTri], cfg) :
        LET m == g3AddShape(Arrays, vertexOffset, geometry[nextTri], zs, cfg)
        IN  /\ verts' = m.verts
            /\ inds' = m.inds
  /\ vertexOffset' = vertexOffset + 2 * Len(geometry[nextTri].vertices)
  /\ nextTri' = nextTri + 1
  /\ UNCHANGED <<pc, config, call, geometry, cfg, buildTris, buildCfg, mesh, reported, rawZ>>
  /\ UNCHANGED <<delaunayVars, circleVars, otherVars>>

\* lines 445-452
G3Return ==
  /\ pc = "g3Loop"
  /\ nextTri > Len(geometry)
  /\ mesh' = [kind |-> "mesh", vertices |-> verts, indices |-> inds, shapes |-> geometry]
  /\ reported' = Len(inds) \div 3
  /\ pc' = "meshDone"
  /\ UNCHANGED <<config, call, geometry, cfg, buildTris, buildCfg, verts, inds, nextTri, vertexOffset, rawZ>>
  /\ UNCHANGED <<delaunayVars, circleVars, otherVars>>

NextM ==
  \/ BuildTileBegin
  \/ BuildBegin
  \/ BuildAngledFacet
  \/ BuildHybridFacet
  \/ BuildHeightmapFacet
  \/ BuildThrow
  \/ BuildReturn
  \/ G3NoShapes
  \/ G3Begin
  \/ G3SkipShape
  \/ G3AddShape
  \/ G3Return

SpecM == InitM /\ [][NextM]_vars

(***************************************************************************)
(* Reading a mesh.                                                         *)
(***************************************************************************)
\* vertex number i (from 0) of a flat vertex array
VertexAt(vs, i) == [x |-> vs[3 * i + 1], y |-> vs[3 * i + 2], z |-> vs[3 * i + 3]]

\* index triple number t (from 0) of a flat index array
TripleAt(is, t) == <<is[3 * t + 1], is[3 * t + 2], is[3 * t + 3]>>

InMeshCall == pc \in {"mbLoop", "g3Loop", "meshDone"}
InBuild == call.fn \in {"build", "buildTile"} /\ pc \in {"mbLoop", "meshDone"}
MeshReturned == pc = "meshDone" /\ mesh.kind = "mesh"

WellFormed(vs, is) ==
  /\ Len(vs) % 3 = 0
  /\ Len(is) % 3 = 0
  /\ \A k \in 1..Len(is) : is[k] >= 0 /\ 3 * is[k] < Len(vs)

(***************************************************************************)
(* C7  Mesh invariant: after every facet appended and in every returned    *)
(* mesh, vertices and indices have a length that is a multiple of 3, every *)
(* index is below vertices.length / 3, and the reported triangle count is  *)
(* indices.length / 3.                                                     *)
(***************************************************************************)
C7_MeshInvariant ==
  /\ InMeshCall => WellFormed(verts, inds)
  /\ MeshReturned =>
       /\ WellFormed(mesh.vertices, mesh.indices)
       /\ 3 * reported = Len(mesh.indices)
       /\ call.fn \in {"build", "buildTile"} => 3 * mesh.triangleCount = Len(mesh.indices)

\* a returned mesh of at least one facet
W_C7 == MeshReturned /\ Len(mesh.indices) >= 24 /\ Len(mesh.vertices) >= 18

(***************************************************************************)
(* C8  For every relief method build appends per triangle exactly 18       *)
(* vertices and 8 index triples whose indices all lie in the facet's own   *)
(* block of 18 vertices; the 3 bottom vertices and the 2 bottom corners of *)
(* each side quad have z = 0.  A build over T triangles returns 18 T       *)
(* vertices and 8 T triangles.                                             *)
(***************************************************************************)
FacetsDone == nextTri - 1

C8_FacetShape ==
  /\ InBuild =>
       /\ Len(verts) = 54 * FacetsDone
       /\ Len(inds) = 24 * FacetsDone
       /\ \A f \in 0..(FacetsDone - 1) :
            /\ \A k \in (24 * f + 1)..(24 * f + 24) :
                 inds[k] >= 18 * f /\ inds[k] < 18 * f + 18
            /\ \A i \in {0, 1, 2, 6, 7, 10, 11, 14, 15} : VertexAt(verts, 18 * f + i).z = 0
  /\ (MeshReturned /\ call.fn \in {"build", "buildTile"}) =>
       /\ Len(mesh.vertices) = 3 * 18 * Len(buildTris)
       /\ mesh.triangleCount = 8 * Len(buildTris)

\* a returned hybrid build of two facets
W_C8 ==
  /\ MeshReturned /\ call.fn = "build" /\ Len(buildTris) = 2
  /\ buildCfg.reliefMethod = "hybrid"
  /\ Len(mesh.vertices) = 108

(***************************************************************************)
(* C9  The unit-square scenario: build over its two triangles with         *)
(* reliefMethod = heightmap, baseThickness = 3, maxReliefHeight = 8.       *)
(* A triangle of the mesh is a side triangle when two of its corners have  *)
(* the same (x, y), else a top or bottom triangle.                         *)
(***************************************************************************)
IsScenarioBuild ==
  /\ MeshReturned
  /\ call.fn = "build"
  /\ buildTris = ScenarioTriangles
  /\ buildCfg.reliefMethod = "heightmap"
  /\ buildCfg.baseThickness = 3
  /\ buildCfg.maxReliefHeight = 8

SameXY(a, b) == a.x = b.x /\ a.y = b.y

IsSideTriple(vs, tr) ==
  LET a == VertexAt(vs, tr[1])
      b == VertexAt(vs, tr[2])
      c == VertexAt(vs, tr[3])
  IN  SameXY(a, b) \/ SameXY(b, c) \/ SameXY(a, c)

SideTriangles(m) ==
  Cardinality({t \in 0..((Len(m.indices) \div 3) - 1) :
                 IsSideTriple(m.vertices, TripleAt(m.indices, t))})

FlatTriangles(m) ==
  Cardinality({t \in 0..((Len(m.indices) \div 3) - 1) :
                 ~IsSideTriple(m.vertices, TripleAt(m.indices, t))})

\* C9 as stated: 24 triangles, 12 top/bottom plus 12 side triangles
C9_Scenario24 ==
  IsScenarioBuild =>
     /\ mesh.triangleCount = 24
     /\ FlatTriangles(mesh) = 12
     /\ SideTriangles(mesh) = 12

\* C9 amended: 16 triangles, 4 top/bottom (2 facets x 2) plus 12 side
\* triangles (2 facets x 3 quads x 2)
C9_Scenario16 ==
  IsScenarioBuild =>
     /\ mesh.triangleCount = 16
     /\ FlatTriangles(mesh) = 4
     /\ SideTriangles(mesh) = 12

W_C9 == IsScenarioBuild /\ mesh.triangleCount = 16

(***************************************************************************)
(* C10  Heightmap: the top z of vertex k of a facet is                     *)
(* baseThickness + (brightness of vertex k) * maxReliefHeight, whatever    *)
(* the other inputs; with baseThickness 3 and maxReliefHeight 8 that is 3  *)
(* for brightness 0 and 11 for brightness 1.  The same z is at the top     *)
(* face vertex and at the matching top corners of the two adjoining side   *)
(* quads (quad q runs from vertex q to vertex q + 1).                      *)
(***************************************************************************)
HeightOf(b) == 30 * buildCfg.baseThickness + b * buildCfg.maxReliefHeight

C10_HeightmapTopZ ==
  (InBuild /\ buildCfg.reliefMethod = "heightmap") =>
     \A f \in 0..(FacetsDone - 1) : \A k \in 0..2 :
        LET b == buildTris[f + 1].vertices[k + 1].brightness
            z == VertexAt(verts, 18 * f + 3 + k).z
        IN  /\ z = HeightOf(b)
            /\ (buildCfg.baseThickness = 3 /\ buildCfg.maxReliefHeight = 8 /\ b = 0) => z = 90
            /\ (buildCfg.baseThickness = 3 /\ buildCfg.maxReliefHeight = 8 /\ b = 30) => z = 330
            \* top-left corner of quad k, top-right corner of quad k - 1
            /\ VertexAt(verts, 18 * f + 6 + 4 * k + 3).z = z
            /\ VertexAt(verts, 18 * f + 6 + 4 * ((k + 2) % 3) + 2).z = z

\* the scenario built: top vertices at 3.0 and at 11.0
W_C10 ==
  /\ IsScenarioBuild
  /\ \E f \in 0..1 : \E k, l \in 0..2 :
        /\ VertexAt(mesh.vertices, 18 * f + 3 + k).z = 90
        /\ VertexAt(mesh.vertices, 18 * f + 3 + l).z = 330

(***************************************************************************)
(* C11  Mesh closure.  For every facet emitted by build whose base         *)
(* triangle is not degenerate and whose three top z are > 0, with vertices *)
(* identified by position: the 9 prism edges (3 bottom, 3 top, 3 vertical) *)
(* and the 3 side-quad diagonals are 12 different edges, each of them is   *)
(* an edge of exactly two of the facet's 8 triangles, and the triangles    *)
(* have no other edge.                                                     *)
(***************************************************************************)
FacetBottom(vs, f, k) == VertexAt(vs, 18 * f + (k % 3))
FacetTop(vs, f, k) == VertexAt(vs, 18 * f + 3 + (k % 3))

TripleEdges(vs, tr) ==
  LET a == VertexAt(vs, tr[1])
      b == VertexAt(vs, tr[2])
      c == VertexAt(vs, tr[3])
  IN  {{a, b}, {b, c}, {a, c}}

PrismEdges(vs, f) ==
  UNION {{ {FacetBottom(vs, f, k), FacetBottom(vs, f, k + 1)},
           {FacetTop(vs, f, k), FacetTop(vs, f, k + 1)},
           {FacetBottom(vs, f, k), FacetTop(vs, f, k)},
           {FacetBottom(vs, f, k), FacetTop(vs, f, k + 1)} } : k \in 0..2}

ProperFacet(vs, f) ==
  /\ Cross(FacetBottom(vs, f, 0), FacetBottom(vs, f, 1), FacetBottom(vs, f, 2)) # 0
  /\ \A k \in 0..2 : FacetTop(vs, f, k).z > 0

ClosedFacet(vs, is, f) ==
  /\ Cardinality(PrismEdges(vs, f)) = 12
  /\ \A e \in PrismEdges(vs, f) :
       Cardinality({t \in 0..7 : e \in TripleEdges(vs, TripleAt(is, 8 * f + t))}) = 2
  /\ \A t \in 0..7 : TripleEdges(vs, TripleAt(is, 8 * f + t)) \subseteq PrismEdges(vs, f)

C11_MeshClosure ==
  InBuild =>
     \A f \in 0..(FacetsDone - 1) : ProperFacet(verts, f) => ClosedFacet(verts, inds, f)

\* a returned angled build of two facets, every top z above 0
W_C11 ==
  /\ MeshReturned /\ call.fn = "build" /\ Len(buildTris) = 2
  /\ buildCfg.reliefMethod = "angled"
  /\ \A f \in 0..1 : ProperFacet(mesh.vertices, f)

(***************************************************************************)
(* C12  Winding.  The triangles handed to build come from                  *)
(* Delaunay.triangulate and are counter-clockwise.  For every facet built  *)
(* from them the top triple has a normal with z > 0, the bottom triple a   *)
(* normal with z < 0, and the two triples of each side quad a normal that  *)
(* points away from the interior of the prism (positive scalar product     *)
(* with the vector from the prism's centre to the triangle).               *)
(***************************************************************************)
Sub3(a, b) == [x |-> a.x - b.x, y |-> a.y - b.y, z |-> a.z - b.z]

\* (b - a) x (c - a)
Normal(a, b, c) ==
  LET u == Sub3(b, a)
      v == Sub3(c, a)
  IN  [x |-> u.y * v.z - u.z * v.y, y |-> u.z * v.x - u.x * v.z, z |-> u.x * v.y - u.y * v.x]

TripleNormal(vs, tr) == Normal(VertexAt(vs, tr[1]), VertexAt(vs, tr[2]), VertexAt(vs, tr[3]))

\* six times the centre of the six prism corners of facet f
PrismCentre6(vs, f) ==
  [x |-> 2 * (FacetBottom(vs, f, 0).x + FacetBottom(vs, f, 1).x + FacetBottom(vs, f, 2).x),
   y |-> 2 * (FacetBottom(vs, f, 0).y + FacetBottom(vs, f, 1).y + FacetBottom(vs, f, 2).y),
   z |-> FacetTop(vs, f, 0).z + FacetTop(vs, f, 1).z + FacetTop(vs, f, 2).z]

\* sign of  normal . (corner - centre)  for triple tr of facet f
OutwardSign(vs, f, tr) ==
  LET n == TripleNormal(vs, tr)
      a == VertexAt(vs, tr[1])
      c == PrismCentre6(vs, f)
  IN  WideSign(WideAdd(WideAdd(WideMul(n.x, 6 * a.x - c.x), WideMul(n.y, 6 * a.y - c.y)),
                       WideMul(n.z, 6 * a.z - c.z)))

FacetWinding(vs, is, f) ==
  /\ Cross(FacetBottom(vs, f, 0), FacetBottom(vs, f, 1), FacetBottom(vs, f, 2)) > 0
  /\ TripleNormal(vs, TripleAt(is, 8 * f)).z > 0
  /\ TripleNormal(vs, TripleAt(is, 8 * f + 1)).z < 0
  /\ \A t \in 0..7 : OutwardSign(vs, f, TripleAt(is, 8 * f + t)) > 0

TopAboveZero(vs, f) == \A k \in 0..2 : FacetTop(vs, f, k).z > 0

\* C12 as stated: every facet of every build
C12_Winding ==
  InBuild => \A f \in 0..(FacetsDone - 1) : FacetWinding(verts, inds, f)

\* C12 amended: every facet whose three top z are above 0
C12_WindingAboveZero ==
  InBuild =>
     \A f \in 0..(FacetsDone - 1) : TopAboveZero(verts, f) => FacetWinding(verts, inds, f)

\* a returned tile build of two facets with tilted tops above 0
W_C12 ==
  /\ MeshReturned /\ call.fn = "buildTile" /\ Len(buildTris) = 2
  /\ \A f \in 0..1 :
       /\ TopAboveZero(mesh.vertices, f)
       /\ FacetTop(mesh.vertices, f, 0).z # FacetTop(mesh.vertices, f, 1).z

\* Delaunay.triangulate keeps every triangle of its working list and of
\* its result counter-clockwise (used by C12)
TriangulateCounterClockwise ==
  /\ pc = "insert" =>
       \A k \in 1..Len(triangles) :
          Cross(triangles[k].vertices[1], triangles[k].vertices[2], triangles[k].vertices[3]) > 0
  /\ pc = "done" =>
       \A k \in 1..Len(result) :
          Cross(result[k].vertices[1], result[k].vertices[2], result[k].vertices[3]) > 0

(***************************************************************************)
(* C13  Minimum wall thickness.  For every angled facet the three top z    *)
(* that are emitted are >= 0.5 * baseThickness, for every hybrid facet     *)
(* >= 0.3 * baseThickness.  The emitted z differ from the unraised z0, z1, *)
(* z2 by one common offset (so their pairwise differences are kept); the   *)
(* offset is positive when the unraised minimum is below the threshold and *)
(* 0 when it is not.  baseThickness is 0 or 3 here, heights are in 1/30.   *)
(***************************************************************************)
Threshold30 ==
  IF buildCfg.reliefMethod = "angled" THEN 15 * buildCfg.baseThickness
                                      ELSE 9 * buildCfg.baseThickness

RaisedBy(f, k) == FacetTop(verts, f, k).z - rawZ[f + 1][k + 1]

WideLeq(u, v) == WideSign(WideAdd(v, WideNeg(u))) >= 0

Exactly(n) == [lo |-> n, hi |-> n]

PowTenWide(k) == WideMul(k * k * k * k * k, k * k * k * k * k)

\* Math.pow(brightness, 0.7):
\* (y / 20)^10 = (b / 10)^7  iff  y^10 = 2^10 * 10^3 * b^7
adjustedBrightness(b) ==
  LET target == WideMul(1024000, b * b * b * b * b * b * b)
      k == CHOOSE j \in 0..20 :
             WideLeq(PowTenWide(j), target) /\ ~WideLeq(PowTenWide(j + 1), target)
  IN  [lo |-> k, hi |-> IF PowTenWide(k) = target THEN k ELSE k + 1]

\* (adjustedBrightness - 0.5) * 2
angledTiltFactor(b) ==
  [lo |-> 2 * adjustedBrightness(b).lo - 20, hi |-> 2 * adjustedBrightness(b).hi - 20]

\* Math.pow(m / 20, 1 / (sharpness + 0.5)) in 1/400, for the sharpness
\* values 0, 0.5 and 1.5, whose exponents are 2, 1 and 1/2
PowAbs(m, sharpness) ==
  CASE sharpness = 0 -> Exactly(m * m)
    [] sharpness = 5 -> Exactly(20 * m)
    [] sharpness = 15 ->
         LET k == CHOOSE j \in 0..400 : j * j <= 8000 * m /\ (j + 1) * (j + 1) > 8000 * m
         IN  [lo |-> k, hi |-> IF k * k = 8000 * m THEN k ELSE k + 1]

\* Math.sign(tiltFactor) * Math.pow(Math.abs(tiltFactor), 1 / (sharpness + 0.5))
sharpTilt(tf, sharpness) ==
  [lo |-> IF tf.lo >= 0 THEN PowAbs(tf.lo, sharpness).lo
                        ELSE 0 - PowAbs(0 - tf.lo, sharpness).hi,
   hi |-> IF tf.hi >= 0 THEN PowAbs(tf.hi, sharpness).hi
                        ELSE 0 - PowAbs(0 - tf.hi, sharpness).lo]

\* addAngledFacet: tiltAmount = sharpTilt * maxTilt
angledTiltAmount(b, c) ==
  LET st == sharpTilt(angledTiltFactor(b), c.facetSharpness)
  IN  [lo |-> st.lo * c.maxTiltAngle, hi |-> st.hi * c.maxTiltAngle]

\* addHybridFacet: tiltFactor = (avgBrightness - 0.5) * 2,
\* tiltAmount = tiltFactor * maxTilt
hybridTiltAmount(b, c) == Exactly(40 * (2 * b - 10) * c.maxTiltAngle)

TiltConfigs == [facetSharpness : {0, 5, 15}, maxTiltAngle : {10, 35, 60}]

BrightnessLists == UNION {[1..n -> 0..10] : n \in 0..MaxFacets}

InitT ==
  /\ pc = "tilt"
  /\ tiltCfg \in TiltConfigs
  /\ tiltBright \in BrightnessLists
  /\ angledTilts = <<>>
  /\ hybridTilts = <<>>
  /\ DelaunayIdle
  /\ CircleIdle
  /\ MeshIdle
  /\ GenIdle
  /\ InfoIdle
  /\ ManagerIdle

\* the tilt of the next facet as addAngledFacet computes it
AngledTilt ==
  /\ pc = "tilt"
  /\ Len(angledTilts) < Len(tiltBright)
  /\ angledTilts' = Append(angledTilts,
                           angledTiltAmount(tiltBright[Len(angledTilts) + 1], tiltCfg))
  /\ UNCHANGED <<pc, tiltCfg, tiltBright, hybridTilts>>
  /\ UNCHANGED <<delaunayVars, circleVars, meshVars, genVars, infoVars, managerVars>>

\* the tilt of the next facet as addHybridFacet computes it
HybridTilt ==
  /\ pc = "tilt"
  /\ Len(hybridTilts) < Len(tiltBright)
  /\ hybridTilts' = Append(hybridTilts,
                           hybridTiltAmount(tiltBright[Len(hybridTilts) + 1], tiltCfg))
  /\ UNCHANGED <<pc, tiltCfg, tiltBright, angledTilts>>
  /\ UNCHANGED <<delaunayVars, circleVars, meshVars, genVars, infoVars, managerVars>>

NextT ==
  \/ AngledTilt
  \/ HybridTilt

SpecT == InitT /\ [][NextT]_vars

(***************************************************************************)
(* C14  Tilt monotonicity (angled method, fixed sharpness and max tilt):   *)
(* for two facets with |b1 - 0.5| <= |b2 - 0.5| the magnitude of           *)
(* tiltAmount of the first is not above that of the second, and for        *)
(* brightness 0.5 the tilt is about 0 (here: within 1 % of maxTilt).       *)
(* A tilt is known as an interval; the statement is taken as violated only *)
(* when every value of the intervals violates it.                          *)
(***************************************************************************)
MagLo(t) == IF t.lo >= 0 THEN t.lo ELSE IF t.hi <= 0 THEN 0 - t.hi ELSE 0
MagHi(t) == Max2(Abs(t.lo), Abs(t.hi))
FromMid(b) == Abs(b - 5)

C14_TiltMonotone ==
  pc = "tilt" =>
     /\ \A i, j \in 1..Len(angledTilts) :
          FromMid(tiltBright[i]) <= FromMid(tiltBright[j])
             => MagLo(angledTilts[i]) <= MagHi(angledTilts[j])
     /\ \A i \in 1..Len(angledTilts) :
          tiltBright[i] = 5 => MagLo(angledTilts[i]) <= 4 * tiltCfg.maxTiltAngle

(***************************************************************************)
(* C15  For the same brightness, max tilt angle and facet sharpness the    *)
(* hybrid method uses the tiltAmount of the angled method.                 *)
(***************************************************************************)
C15_HybridTiltAsAngled ==
  pc = "tilt" =>
     \A i \in 1..Len(angledTilts) :
        i <= Len(hybridTilts) =>
           /\ angledTilts[i].lo <= hybridTilts[i].hi
           /\ hybridTilts[i].lo <= angledTilts[i].hi

(***************************************************************************)
(* C16  A triangle or shape with fewer than 3 vertices that reaches mesh   *)
(* building is skipped: no exception leaves the call, and the mesh that is *)
(* returned is made of the other triangles / shapes alone (18 vertices per *)
(* valid triangle in build, 2 n vertices per valid n-gon in                *)
(* generate3DGeometry).                                                    *)
(***************************************************************************)
RECURSIVE ValidVertexCount(_)
ValidVertexCount(shapes) ==
  IF Len(shapes) = 0 THEN 0
  ELSE (IF Len(shapes[1].vertices) >= 3 THEN 2 * Len(shapes[1].vertices) ELSE 0)
         + ValidVertexCount(Tail(shapes))

ValidTriangles(tris) == Len(SelectSeq(tris, LAMBDA t : Len(t.vertices) >= 3))

C16_InvalidShapeSkipped ==
  /\ pc # "mbThrown"
  /\ (MeshReturned /\ call.fn = "generate3DGeometry") =>
        Len(mesh.vertices) = 3 * ValidVertexCount(geometry)
  /\ (MeshReturned /\ call.fn \in {"build", "buildTile"}) =>
        Len(mesh.vertices) = 3 * 18 * ValidTriangles(buildTris)

(***************************************************************************)
(* GeometryGenerator.generatePoints and the head of generate3DGeometry     *)
(* (js/geometryGenerator.js, lines 3-86, 148-190, 346-371).                *)
(*                                                                         *)
(* Units.  x, y are stored doubled as everywhere; sizes of the config are  *)
(* in pixels.  What the image decides is an input: which samples have an   *)
(* edge strength above 0.15 and in which order the sort leaves them        *)
(* (edgeQueue), and the brightness at a regular position (0 or 1).         *)
(* Math.random() is a choice among the values that give a whole doubled    *)
(* coordinate.  The cell of a coordinate, floor(x / (minShapeSize /        *)
(* sqrt 2)), is found by exact integer comparison.                         *)
(***************************************************************************)
MaxEdgeSamples == 2   \* longest edgeQueue

\* sampleStep = Math.min(minShapeSize / 2, 3), doubled
SampleStep2(c) == Min2(c.minShapeSize, 6)

\* the sample positions of the first pass (lines 16-22)
EdgeLattice(c) ==
  {q \in (0..(2 * c.width - 1)) \X (0..(2 * c.height - 1)) :
     q[1] % SampleStep2(c) = 0 /\ q[2] % SampleStep2(c) = 0}

EdgeQueues(c) ==
  {l \in UNION {[1..n -> EdgeLattice(c)] : n \in 0..MaxEdgeSamples} :
     \A i, j \in 1..Len(l) : i # j => l[i] # l[j]}

\* regularStep = (minShapeSize + maxShapeSize) / 2, doubled
RegularStep2(c) == c.minShapeSize + c.maxShapeSize

RegularCount(c, size) ==
  Cardinality({k \in 0..(2 * size) : (RegularStep2(c) \div 2) + k * RegularStep2(c) < 2 * size})

\* position number i (from 0) of the loops of lines 69-70, y outside, x inside
RegularPosition(c, i) ==
  <<(RegularStep2(c) \div 2) + (i % RegularCount(c, c.width)) * RegularStep2(c),
    (RegularStep2(c) \div 2) + (i \div RegularCount(c, c.width)) * RegularStep2(c)>>

RegularTotal(c) == RegularCount(c, c.width) * RegularCount(c, c.height)

\* (Math.random() - 0.5) * jitter, doubled, with jitter = localSize * 0.25
\* and localSize = minShapeSize + (maxShapeSize - minShapeSize) * brightness:
\* the whole numbers k with  -localSize / 4 <= k < localSize / 4
Jitters(c, brightness) ==
  LET localSize == c.minShapeSize + (c.maxShapeSize - c.minShapeSize) * brightness
  IN  {k \in (0 - localSize)..localSize : 0 - localSize <= 4 * k /\ 4 * k < localSize}

\* Math.floor(x / cellSize), cellSize = minShapeSize / Math.sqrt(2), x >= 0
CellOf(x2, c) ==
  CHOOSE g \in 0..x2 :
     /\ 2 * g * g * c.minShapeSize * c.minShapeSize <= x2 * x2
     /\ 2 * (g + 1) * (g + 1) * c.minShapeSize * c.minShapeSize > x2 * x2

\* dist < minDist,  minDist = isEdge ? minShapeSize * 0.7 : minShapeSize
TooClose(x2, y2, q, isEdge, c) ==
  LET d2 == (x2 - q.x) * (x2 - q.x) + (y2 - q.y) * (y2 - q.y)
  IN  IF isEdge THEN 100 * d2 < 196 * c.minShapeSize * c.minShapeSize
                ELSE d2 < 4 * c.minShapeSize * c.minShapeSize

\* the loop of lines 37-47: does a point of the 3 x 3 cells around reject?
Rejected(g, x2, y2, isEdge, c) ==
  \E e \in g :
     /\ e.gx - CellOf(x2, c) \in {0 - 1, 0, 1}
     /\ e.gy - CellOf(y2, c) \in {0 - 1, 0, 1}
     /\ TooClose(x2, y2, e.point, isEdge, c)

\* lines 49-52: push the point, grid[key] = point
GridAfter(g, point, c) ==
  {e \in g : ~(e.gx = CellOf(point.x, c) /\ e.gy = CellOf(point.y, c))}
    \cup {[gx |-> CellOf(point.x, c), gy |-> CellOf(point.y, c), point |-> point]}

\* a point object; id stands for the object's identity, a field the object
\* does not have is FALSE
NewPoint(x2, y2, brightness, isEdge, k) ==
  [x |-> x2, y |-> y2, brightness |-> brightness, isEdge |-> isEdge,
   boundary |-> FALSE, id |-> k]

\* addPoint of generatePoints, lines 31-53, on the pair (points, grid)
gpAddPoint(pts, g, x2, y2, brightness, isEdge, c) ==
  IF Rejected(g, x2, y2, isEdge, c)
  THEN [points |-> pts, grid |-> g, added |-> FALSE]
  ELSE LET point == NewPoint(x2, y2, brightness, isEdge, Len(pts) + 1)
       IN  [points |-> Append(pts, point), grid |-> GridAfter(g, point, c),
            added |-> TRUE]

\* generateTriangles, lines 155-164: the eight boundary points
BoundaryPoints(c) ==
  LET B(x2, y2, k) == [x |-> x2, y |-> y2, brightness |-> 0, isEdge |-> FALSE,
                       boundary |-> TRUE, id |-> 100 + k]
  IN  << B(0, 0, 1), B(2 * c.width, 0, 2), B(2 * c.width, 2 * c.height, 3),
         B(0, 2 * c.height, 4), B(c.width, 0, 5), B(2 * c.width, c.height, 6),
         B(c.width, 2 * c.height, 7), B(0, c.height, 8) >>

\* generateTriangles, lines 148-190
generateTriangles(pts, c) ==
  LET tris == simpleDelaunay(pts \o BoundaryPoints(c))
      inBounds(tri) == \A k \in 1..3 :
                          /\ tri[k].x >= 0 - 20
                          /\ tri[k].x <= 2 * c.width + 20
                          /\ tri[k].y >= 0 - 20
                          /\ tri[k].y <= 2 * c.height + 20
      kept == SelectSeq(tris, inBounds)
  IN  [n \in 1..Len(kept) |->
         [vertices |-> kept[n],
          brightness |-> (kept[n][1].brightness + kept[n][2].brightness
                            + kept[n][3].brightness) \div 3]]

\* generateVoronoi, lines 88-146.  A cell gets one vertex per neighbour
\* (lines 106-121) and clipPolygonToBounds makes no polygon of three
\* vertices out of fewer than two, so one or two points give no polygon.
\* From three points on the polygons are not computed here: any list of
\* shapes stands for them.
generateVoronoi(pts, c) ==
  IF Len(pts) < 3 THEN {<<>>} ELSE ShapeLists

\* with height 3 no regular position lies inside the image
GenConfigs ==
  {[GenConfig(shapeType) EXCEPT !.height = h] :
     shapeType \in {"triangles", "voronoi"}, h \in {3, 6}}

InitG ==
  /\ pc = "gpEdge"
  /\ genCfg \in GenConfigs
  /\ edgeQueue \in EdgeQueues(genCfg)
  /\ edgeNext = 1
  /\ edgePointCount = 0
  /\ gpPoints = <<>>
  /\ gpGrid = {}
  /\ regNext = 0
  /\ DelaunayIdle
  /\ CircleIdle
  /\ TiltIdle
  /\ InfoIdle
  /\ ManagerIdle
  /\ config = DefaultConfig
  /\ call = [fn |-> "generate3DGeometry", tileCol |-> 0, tileRow |-> 0]
  /\ geometry = <<>>
  /\ cfg = genCfg
  /\ buildTris = <<>>
  /\ buildCfg = DefaultCfg
  /\ verts = <<>>
  /\ inds = <<>>
  /\ nextTri = 0
  /\ vertexOffset = 0
  /\ mesh = NoMesh
  /\ reported = 0
  /\ rawZ = <<>>

(***************************************************************************)
(* generate3DGeometry from its call, as a state machine.                   *)
(*   pc = "gpEdge"    : in edgeMap.forEach (line 57); edgeQueue holds the  *)
(*                      samples with edge > 0.15, in the sorted order      *)
(*   pc = "gpRegular" : in the loops of lines 69-70                        *)
(*   pc = "gpDone"    : generatePoints has returned gpPoints               *)
(* and then "g3Shapes", "g3Loop", "meshDone" as above.                     *)
(***************************************************************************)
EdgeMapLength(c) == Cardinality(EdgeLattice(c))

\* lines 57-63
GpEdgeSample ==
  /\ pc = "gpEdge"
  /\ edgeNext <= Len(edgeQueue)
  /\ LET sample == edgeQueue[edgeNext]
         \* the samples of edgeQueue have brightness 0.5 (15 in 1/30)
         r == gpAddPoint(gpPoints, gpGrid, sample[1], sample[2], 15, TRUE, genCfg)
     IN  IF 10 * edgePointCount < 3 * EdgeMapLength(genCfg) /\ r.added
         THEN /\ gpPoints' = r.points
              /\ gpGrid' = r.grid
              /\ edgePointCount' = edgePointCount + 1
         ELSE UNCHANGED <<gpPoints, gpGrid, edgePointCount>>
  /\ edgeNext' = edgeNext + 1
  /\ UNCHANGED <<pc, genCfg, edgeQueue, regNext>>
  /\ UNCHANGED <<delaunayVars, circleVars, meshVars, tiltVars, infoVars, managerVars>>

\* line 64: forEach is over
GpEdgeDone ==
  /\ pc = "gpEdge"
  /\ edgeNext > Len(edgeQueue)
  /\ pc' = "gpRegular"
  /\ regNext' = 0
  /\ UNCHANGED <<genCfg, edgeQueue, edgeNext, edgePointCount, gpPoints, gpGrid>>
  /\ UNCHANGED <<delaunayVars, circleVars, meshVars, tiltVars, infoVars, managerVars>>

\* lines 71-81
GpRegularSample ==
  /\ pc = "gpRegular"
  /\ regNext < RegularTotal(genCfg)
  /\ \E brightness \in {0, 1} :
       \E jx, jy \in Jitters(genCfg, brightness) :
          LET px == RegularPosition(genCfg, regNext)[1] + jx
              py == RegularPosition(genCfg, regNext)[2] + jy
              r  == gpAddPoint(gpPoints, gpGrid, px, py, 30 * brightness, FALSE, genCfg)
          IN  IF px >= 0 /\ px <= 2 * genCfg.width /\ py >= 0 /\ py <= 2 * genCfg.height
              THEN /\ gpPoints' = r.points
                   /\ gpGrid' = r.grid
              ELSE UNCHANGED <<gpPoints, gpGrid>>
  /\ regNext' = regNext + 1
  /\ UNCHANGED <<pc, genCfg, edgeQueue, edgeNext, edgePointCount>>
  /\ UNCHANGED <<delaunayVars, circleVars, meshVars, tiltVars, infoVars, managerVars>>

\* lines 84-85
GpReturn ==
  /\ pc = "gpRegular"
  /\ regNext >= RegularTotal(genCfg)
  /\ pc' = "gpDone"
  /\ UNCHANGED genVars
  /\ UNCHANGED <<delaunayVars, circleVars, meshVars, tiltVars, infoVars, managerVars>>

\* generate3DGeometry, lines 357-360: no points, return null
G3NoPoints ==
  /\ pc = "gpDone"
  /\ Len(gpPoints) = 0
  /\ mesh' = [NoMesh EXCEPT !.kind = "null"]
  /\ pc' = "meshDone"
  /\ UNCHANGED <<config, call, geometry, cfg, buildTris, buildCfg, verts, inds, nextTri, vertexOffset, reported, rawZ>>
  /\ UNCHANGED <<delaunayVars, circleVars, otherVars>>

\* lines 364-366
G3Shapes ==
  /\ pc = "gpDone"
  /\ Len(gpPoints) # 0
  /\ geometry' \in (IF genCfg.shapeType = "voronoi"
                    THEN generateVoronoi(gpPoints, genCfg)
                    ELSE {generateTriangles(gpPoints, genCfg)})
  /\ pc' = "g3Shapes"
  /\ UNCHANGED <<config, call, cfg, buildTris, buildCfg, verts, inds, nextTri, vertexOffset, mesh, reported, rawZ>>
  /\ UNCHANGED <<delaunayVars, circleVars, otherVars>>

NextG ==
  \/ GpEdgeSample
  \/ GpEdgeDone
  \/ GpRegularSample
  \/ GpReturn
  \/ G3NoPoints
  \/ G3Shapes
  \/ G3NoShapes
  \/ G3Begin
  \/ G3SkipShape
  \/ G3AddShape
  \/ G3Return

SpecG == InitG /\ [][NextG]_vars

(***************************************************************************)
(* C18  Minimum-distance invariant of generatePoints: every pair of        *)
(* accepted points is at least as far apart as the minimum distance of     *)
(* the later accepted one (0.7 * minShapeSize for an edge point,           *)
(* minShapeSize otherwise).                                                *)
(***************************************************************************)
FarEnough(earlier, later, c) ==
  ~TooClose(later.x, later.y, earlier, later.isEdge, c)

C18_MinimumDistance ==
  \A i, j \in 1..Len(gpPoints) :
     i < j => FarEnough(gpPoints[i], gpPoints[j], genCfg)

(***************************************************************************)
(* C17  EmptyPointSet: when generatePoints returns fewer than three        *)
(* points, generate3DGeometry returns null, whatever the shape type.       *)
(***************************************************************************)
GeneratedPoints == call.fn = "generate3DGeometry" /\ edgeNext > 0

C17_FewPointsNull ==
  (GeneratedPoints /\ pc = "meshDone" /\ Len(gpPoints) < 3) => mesh.kind = "null"

(***************************************************************************)
(* C19  buildTile(col, row) retains a triangle iff one of its vertices     *)
(* lies in the tile's box [col/cols, (col+1)/cols] x [row/rows,            *)
(* (row+1)/rows] widened by 0.01 on every side, or its centre lies in the  *)
(* closed box itself.  A retained triangle is kept whole: its three        *)
(* vertices are remapped, nothing is clipped; a triangle with vertices in  *)
(* two adjacent tiles is in both tiles.                                    *)
(* Stated with x = v.x / 2 and centre = center / 6, in hundredths.         *)
(***************************************************************************)
VertexInWidenedBox(v, cols, rows, col, row) ==
  /\ 100 * col - cols <= 50 * cols * v.x
  /\ 50 * cols * v.x <= 100 * (col + 1) + cols
  /\ 100 * row - rows <= 50 * rows * v.y
  /\ 50 * rows * v.y <= 100 * (row + 1) + rows

CentreInBox(ctr, cols, rows, col, row) ==
  /\ 6 * col <= cols * ctr.x /\ cols * ctr.x <= 6 * (col + 1)
  /\ 6 * row <= rows * ctr.y /\ rows * ctr.y <= 6 * (row + 1)

ShouldRetain(tri, cols, rows, col, row) ==
  \/ \E k \in 1..3 : VertexInWidenedBox(tri.vertices[k], cols, rows, col, row)
  \/ CentreInBox(tri.center, cols, rows, col, row)

\* the same triangle, moved to tile coordinates and nothing else changed
KeptWhole(out, tri, cols, rows, col, row) ==
  /\ Len(out.vertices) = 3
  /\ \A k \in 1..3 :
        /\ out.vertices[k].x = cols * tri.vertices[k].x - 2 * col
        /\ out.vertices[k].y = rows * tri.vertices[k].y - 2 * row
        /\ out.vertices[k].brightness = tri.vertices[k].brightness
  /\ out.brightness = tri.brightness

\* vertex k of tri lies in the (closed) box of the tile
VertexInBox(v, cols, rows, col, row) ==
  /\ 2 * col <= cols * v.x /\ cols * v.x <= 2 * (col + 1)
  /\ 2 * row <= rows * v.y /\ rows * v.y <= 2 * (row + 1)

AdjacentTiles(a, b) ==
  (a.col - b.col) * (a.col - b.col) + (a.row - b.row) * (a.row - b.row) = 1

InTileCall == call.fn = "buildTile" /\ pc # "tileStart"

C19_TileRetention ==
  InTileCall =>
    LET info == getTileInfo(config)
        cols == info.cols
        rows == info.rows
        keep == SelectSeq([k \in 1..Len(geometry) |-> k],
                          LAMBDA k : ShouldRetain(geometry[k], cols, rows,
                                                  call.tileCol, call.tileRow))
    IN  /\ Len(buildTris) = Len(keep)
        /\ \A n \in 1..Len(keep) :
              KeptWhole(buildTris[n], geometry[keep[n]], cols, rows,
                        call.tileCol, call.tileRow)
        /\ \A k \in 1..Len(geometry), a, b \in 1..Len(info.tiles) :
              ( /\ AdjacentTiles(info.tiles[a], info.tiles[b])
                /\ \E i \in 1..3 : VertexInBox(geometry[k].vertices[i], cols, rows,
                                               info.tiles[a].col, info.tiles[a].row)
                /\ \E j \in 1..3 : VertexInBox(geometry[k].vertices[j], cols, rows,
                                               info.tiles[b].col, info.tiles[b].row) )
              => \A t \in {a, b} :
                    \E n \in 1..Len(tileTriangles(geometry, info, info.tiles[t].col,
                                                  info.tiles[t].row)) :
                       KeptWhole(tileTriangles(geometry, info, info.tiles[t].col,
                                               info.tiles[t].row)[n],
                                 geometry[k], cols, rows,
                                 info.tiles[t].col, info.tiles[t].row)

\* a tile that drops one triangle and keeps another only for a vertex in the
\* 0.01 margin of its box
W_C19 ==
  /\ InTileCall
  /\ pc = "meshDone"
  /\ Len(buildTris) = 1
  /\ LET info == getTileInfo(config)
     IN  /\ \E k \in 1..Len(geometry) :
                ~ShouldRetain(geometry[k], info.cols, info.rows, call.tileCol, call.tileRow)
         /\ \E k \in 1..Len(geometry) :
                /\ ShouldRetain(geometry[k], info.cols, info.rows, call.tileCol, call.tileRow)
                /\ ~CentreInBox(geometry[k].center, info.cols, info.rows,
                                call.tileCol, call.tileRow)
                /\ \A i \in 1..3 :
                      ~VertexInBox(geometry[k].vertices[i], info.cols, info.rows,
                                   call.tileCol, call.tileRow)

(***************************************************************************)
(* C20  Round trip of the tiling: every input triangle is retained by at   *)
(* least one tile, a tile holds only input triangles, and undoing the      *)
(* remap of a tile (x * tileWidthNorm + minX, y * tileHeightNorm + minY)   *)
(* on the vertices and the centre of a retained triangle gives the         *)
(* original coordinates.                                                   *)
(* x * tileWidthNorm + minX = (x + col) / cols, compared after             *)
(* multiplying by cols (vertices doubled, centre in sixths).               *)
(***************************************************************************)
UndoGives(out, tri, info, tile) ==
  /\ Len(out.vertices) = Len(tri.vertices)
  /\ \A k \in 1..Len(tri.vertices) :
        /\ out.vertices[k].x + 2 * tile.col = info.cols * tri.vertices[k].x
        /\ out.vertices[k].y + 2 * tile.row = info.rows * tri.vertices[k].y
        /\ out.vertices[k].brightness = tri.vertices[k].brightness
  /\ out.center.x + 6 * tile.col = info.cols * tri.center.x
  /\ out.center.y + 6 * tile.row = info.rows * tri.center.y
  /\ out.brightness = tri.brightness

TileOutput(info, tile) == tileTriangles(geometry, info, tile.col, tile.row)

MaxTiles == 16   \* longest tile list and largest row the loops may reach

\* variant: Math.floor
CeilQuot_floor(a, b) ==
  IF b > 0 THEN Num(a \div b)
  ELSE IF b < 0 THEN Num(0 - CeilDiv(a, 0 - b))
  ELSE IF a > 0 THEN Infinity ELSE NaN

\* Math.ceil(a / b) for a >= 0: a / 0 is Infinity, 0 / 0 is NaN
CeilQuot(a, b) ==
  IF b > 0 THEN Num(CeilDiv(a, b))
  ELSE IF b < 0 THEN Num(0 - (a \div (0 - b)))
  ELSE IF a > 0 THEN Infinity ELSE NaN

\* i < v for a loop counter i
LessThan(i, v) == v.kind = "inf" \/ (v.kind = "int" /\ i < v.n)

TileInfoConfigs ==
  [enableTiling : BOOLEAN, printerBedWidth : {2, 3}, printerBedHeight : {2, 3},
   tileOverlap : 0..3, outputWidthMM : 0..4, outputHeightMM : 0..4]

InitI ==
  /\ pc = "tiStart"
  /\ config \in TileInfoConfigs
  /\ InfoIdle
  /\ ManagerIdle
  /\ DelaunayIdle
  /\ CircleIdle
  /\ TiltIdle
  /\ GenIdle
  /\ call = [fn |-> "getTileInfo", tileCol |-> 0, tileRow |-> 0]
  /\ geometry = <<>>
  /\ cfg = DefaultCfg
  /\ buildTris = <<>>
  /\ buildCfg = DefaultCfg
  /\ verts = <<>>
  /\ inds = <<>>
  /\ nextTri = 0
  /\ vertexOffset = 0
  /\ mesh = NoMesh
  /\ reported = 0
  /\ rawZ = <<>>

infoFrame == <<delaunayVars, circleVars, meshVars, tiltVars, genVars, managerVars>>

\* lines 132-134
TileInfoDisabled ==
  /\ pc = "tiStart"
  /\ ~config.enableTiling
  /\ tileInfo' = [cols |-> Num(1), rows |-> Num(1), tiles |-> << [col |-> 0, row |-> 0] >>,
                  usableDefined |-> FALSE]
  /\ pc' = "tiDone"
  /\ UNCHANGED <<tiCols, tiRows, tiRow, tiCol, tiTiles>>
  /\ UNCHANGED infoFrame

\* lines 136-143
TileInfoBegin ==
  /\ pc = "tiStart"
  /\ config.enableTiling
  /\ tiCols' = CeilQuot(config.outputWidthMM, config.printerBedWidth - config.tileOverlap)
  /\ tiRows' = CeilQuot(config.outputHeightMM, config.printerBedHeight - config.tileOverlap)
  /\ tiTiles' = <<>>
  /\ tiRow' = 0
  /\ pc' = "tiRows"
  /\ UNCHANGED <<tiCol, tileInfo>>
  /\ UNCHANGED infoFrame

\* line 143, row < rows holds; line 144, let col = 0
TileInfoRow ==
  /\ pc = "tiRows"
  /\ LessThan(tiRow, tiRows)
  /\ tiRow < MaxTiles
  /\ tiCol' = 0
  /\ pc' = "tiCols"
  /\ UNCHANGED <<tiCols, tiRows, tiRow, tiTiles, tileInfo>>
  /\ UNCHANGED infoFrame

\* lines 144-145, col < cols holds
TileInfoPush ==
  /\ pc = "tiCols"
  /\ LessThan(tiCol, tiCols)
  /\ Len(tiTiles) < MaxTiles
  /\ tiTiles' = Append(tiTiles, [col |-> tiCol, row |-> tiRow,
                                 index |-> tiRow * tiCols.n + tiCol])
  /\ tiCol' = tiCol + 1
  /\ UNCHANGED <<pc, tiCols, tiRows, tiRow, tileInfo>>
  /\ UNCHANGED infoFrame

\* line 144, col < cols fails; line 143, row++
TileInfoRowEnd ==
  /\ pc = "tiCols"
  /\ ~LessThan(tiCol, tiCols)
  /\ tiRow' = tiRow + 1
  /\ pc' = "tiRows"
  /\ UNCHANGED <<tiCols, tiRows, tiCol, tiTiles, tileInfo>>
  /\ UNCHANGED infoFrame

\* line 143, row < rows fails; line 149
TileInfoReturn ==
  /\ pc = "tiRows"
  /\ ~LessThan(tiRow, tiRows)
  /\ tileInfo' = [cols |-> tiCols, rows |-> tiRows, tiles |-> tiTiles,
                  usableWidth |-> config.printerBedWidth - config.tileOverlap,
                  usableHeight |-> config.printerBedHeight - config.tileOverlap,
                  usableDefined |-> TRUE]
  /\ pc' = "tiDone"
  /\ UNCHANGED <<tiCols, tiRows, tiRow, tiCol, tiTiles>>
  /\ UNCHANGED infoFrame

NextI ==
  \/ TileInfoDisabled
  \/ TileInfoBegin
  \/ TileInfoRow
  \/ TileInfoPush
  \/ TileInfoRowEnd
  \/ TileInfoReturn

SpecI == InitI /\ [][NextI]_vars

\* the call is not suspended: a step that can be taken is taken
SpecILive == SpecI /\ WF_vars(NextI)

(***************************************************************************)
(* C21  getTileInfo with tiling enabled and the bed larger than the        *)
(* overlap: cols is the least number with cols * usableWidth >=            *)
(* outputWidthMM, rows likewise; the tile list holds every (col, row) of   *)
(* the grid once, row by row, with index = row * cols + col.  With tiling  *)
(* disabled: a 1 x 1 grid with the single tile (0, 0).                     *)
(***************************************************************************)
BedLargerThanOverlap ==
  /\ config.printerBedWidth > config.tileOverlap
  /\ config.printerBedHeight > config.tileOverlap

Covers(n, usable, output) == n * usable >= output /\ (n - 1) * usable < output

RowMajor(tiles, cols, rows) ==
  /\ Len(tiles) = cols * rows
  /\ \A k \in 1..Len(tiles) :
        /\ tiles[k].index = k - 1
        /\ tiles[k].col = (k - 1) % cols
        /\ tiles[k].row = (k - 1) \div cols
        /\ tiles[k].index = tiles[k].row * cols + tiles[k].col

TileInfoReturned == call.fn = "getTileInfo" /\ pc = "tiDone"

C21_TileGrid ==
  TileInfoReturned =>
    IF config.enableTiling
    THEN BedLargerThanOverlap =>
           /\ tileInfo.cols.kind = "int"
           /\ tileInfo.rows.kind = "int"
           /\ Covers(tileInfo.cols.n, config.printerBedWidth - config.tileOverlap,
                     config.outputWidthMM)
           /\ Covers(tileInfo.rows.n, config.printerBedHeight - config.tileOverlap,
                     config.outputHeightMM)
           /\ RowMajor(tileInfo.tiles, tileInfo.cols.n, tileInfo.rows.n)
           /\ tileInfo.cols.n = getTileInfo(config).cols
           /\ tileInfo.rows.n = getTileInfo(config).rows
           /\ tileInfo.tiles = getTileInfo(config).tiles
    ELSE /\ tileInfo.cols = Num(1)
         /\ tileInfo.rows = Num(1)
         /\ tileInfo.tiles = << [col |-> 0, row |-> 0] >>

\* a grid of several columns and rows whose last column is not full width
W_C21 ==
  /\ TileInfoReturned
  /\ config.enableTiling
  /\ BedLargerThanOverlap
  /\ tileInfo.cols.n >= 2
  /\ tileInfo.rows.n >= 2
  /\ tileInfo.cols.n * (config.printerBedWidth - config.tileOverlap) > config.outputWidthMM

(***************************************************************************)
(* C30  getTileInfo terminates with a usable grid: for every config with   *)
(* positive output width and height, whatever the bed sizes and the        *)
(* overlap, the call returns, with whole numbers cols >= 1 and rows >= 1   *)
(* and a tile list of cols * rows entries.                                 *)
(***************************************************************************)
PositiveOutput == config.outputWidthMM > 0 /\ config.outputHeightMM > 0

UsableGrid(info) ==
  /\ info.cols.kind = "int" /\ info.cols.n >= 1
  /\ info.rows.kind = "int" /\ info.rows.n >= 1
  /\ Len(info.tiles) = info.cols.n * info.rows.n

\* what the call returns is a usable grid, and the call returns
C30_TileInfoTerminates ==
  /\ []((call.fn = "getTileInfo" /\ PositiveOutput /\ pc = "tiDone") => UsableGrid(tileInfo))
  /\ ((call.fn = "getTileInfo" /\ PositiveOutput) => <>(pc = "tiDone"))

(***************************************************************************)
(* C22  The mesh builder depends on its arguments alone: two calls of      *)
(* build or buildTile with equal arguments return equal meshes, whatever   *)
(* the global ConfigManager holds at the time of each call.                *)
(* Stated for buildTile with reliefMethod 'heightmap' (whose z values the  *)
(* model computes): the mesh returned equals the mesh the same call        *)
(* returns under every other global config with tiling enabled.            *)
(***************************************************************************)
\* the arrays build fills for the triangles 1..k of tris, heightmap method
RECURSIVE HeightmapMesh(_, _, _)
HeightmapMesh(tris, c, k) ==
  IF k = 0 THEN [verts |-> <<>>, inds |-> <<>>]
  ELSE addHeightmapFacet(HeightmapMesh(tris, c, k - 1),
                         toMM(tris[k].vertices[1], c), toMM(tris[k].vertices[2], c),
                         toMM(tris[k].vertices[3], c),
                         tris[k].vertices[1].brightness, tris[k].vertices[2].brightness,
                         tris[k].vertices[3].brightness,
                         c.baseThickness, c.maxReliefHeight)

\* what buildTile(geometry, cfg, call.tileCol, call.tileRow) returns while
\* the global config is c
TileMeshUnder(c) ==
  LET info == getTileInfo(c)
      tris == tileTriangles(geometry, info, call.tileCol, call.tileRow)
  IN  HeightmapMesh(tris, tileCfg(cfg, info), Len(tris))

GlobalConfigs == {c \in MeshConfigs \cup {SeamConfig} : c.enableTiling}

C22_ArgumentsOnly ==
  (MeshReturned /\ call.fn = "buildTile" /\ cfg.reliefMethod = "heightmap") =>
    \A c \in GlobalConfigs :
       /\ mesh.vertices = TileMeshUnder(c).verts
       /\ mesh.indices = TileMeshUnder(c).inds

(***************************************************************************)
(* C23  Inputs are read-only: no step of Delaunay.triangulate or of        *)
(* GeometryGenerator.simpleDelaunay changes the caller's point list        *)
(* (length, order, fields), and no step of MeshBuilder.build or buildTile  *)
(* changes the input triangle list.                                        *)
(***************************************************************************)
C23_InputsReadOnly ==
  [][points' = points /\ sdPoints' = sdPoints /\ geometry' = geometry]_vars

(***************************************************************************)
(* C24  Every tile mesh fits the printer bed: every vertex of a mesh       *)
(* returned by buildTile has |x| <= (usableWidth + tileOverlap) / 2 and    *)
(* |y| <= (usableHeight + tileOverlap) / 2.                                *)
(* Mesh x and y are stored doubled, so the bounds are the full sizes.      *)
(***************************************************************************)
C24_TileFitsBed ==
  (MeshReturned /\ call.fn = "buildTile") =>
    LET info == getTileInfo(config)
    IN  \A i \in 0..(Len(mesh.vertices) \div 3 - 1) :
           /\ Abs(mesh.vertices[3 * i + 1]) <= info.usableWidth + cfg.tileOverlap
           /\ Abs(mesh.vertices[3 * i + 2]) <= info.usableHeight + cfg.tileOverlap

(***************************************************************************)
(* C25  Insertion invariant of Bowyer-Watson: while the points inserted    *)
(* are pairwise distinct, the working list holds 2k + 1 triangles after k  *)
(* insertions; an insertion removes the b >= 1 bad triangles and adds      *)
(* b + 2 triangles, each with the inserted point as a vertex.              *)
(***************************************************************************)
DistinctPrefix(n) ==
  \A i, j \in 1..n : i < j => ~SamePos(points[i], points[j])

InsertStep == pc = "insert" /\ nextPt <= Len(points) /\ nextPt' = nextPt + 1

HasVertex(tri, p) == \E k \in 1..3 : tri.vertices[k].id = p.id

Removed == {i \in 1..Len(triangles) : \A j \in 1..Len(triangles') : triangles'[j] # triangles[i]}
Added == {j \in 1..Len(triangles') : \A i \in 1..Len(triangles) : triangles'[j] # triangles[i]}

C25_InsertionInvariant ==
  [][ (InsertStep /\ DistinctPrefix(nextPt)) =>
        /\ Len(triangles) = 2 * (nextPt - 1) + 1
        /\ Len(triangles') = 2 * nextPt + 1
        /\ Cardinality(Removed) >= 1
        /\ Removed = {i \in 1..Len(triangles) :
                        pointInCircumcircle(points[nextPt], triangles[i].circle)}
        /\ Cardinality(Added) = Cardinality(Removed) + 2
        /\ \A j \in Added : HasVertex(triangles'[j], points[nextPt]) ]_vars

\* four distinct points are in, the last one replaced several triangles
W_C25 ==
  /\ pc = "insert"
  /\ nextPt >= 5
  /\ DistinctPrefix(nextPt - 1)
  /\ Len(triangles) = 2 * (nextPt - 1) + 1
  /\ Cardinality({i \in 1..Len(triangles) :
                    HasVertex(triangles[i], points[nextPt - 1])}) >= 4

(***************************************************************************)
(* C26  No input point is lost: when the input points are not all          *)
(* collinear, every input point is a vertex of a triangle that             *)
(* Delaunay.triangulate returns; inserting a point at the position of a    *)
(* point already inserted finds no bad triangle and leaves the working     *)
(* list unchanged.                                                         *)
(***************************************************************************)
NotAllCollinear(pts) ==
  \E i, j, k \in 1..Len(pts) : Cross(pts[i], pts[j], pts[k]) # 0

IsVertexOf(p, tris) ==
  \E t \in 1..Len(tris) : \E k \in 1..3 : SamePos(tris[t].vertices[k], p)

EveryPointKept ==
  (pc = "done" /\ NotAllCollinear(points)) =>
     \A i \in 1..Len(points) : IsVertexOf(points[i], result)

RepeatedPoint == \E j \in 1..(nextPt - 1) : SamePos(points[j], points[nextPt])

RepeatedPointIgnored ==
  (InsertStep /\ RepeatedPoint) =>
     /\ ~\E i \in 1..Len(triangles) :
           pointInCircumcircle(points[nextPt], triangles[i].circle)
     /\ triangles' = triangles

C26_NoPointLost == []EveryPointKept /\ [][RepeatedPointIgnored]_vars

(***************************************************************************)
(* ConfigManager (js/config.js): set, setMultiple, reset, onChange and the *)
(* unsubscribe functions it returns, notify, notifyBatch, exportConfig and *)
(* importConfig.                                                           *)
(*                                                                         *)
(* Values.  A JavaScript value is a record tagged with its type, as for    *)
(* getTileInfo: Num(n), NaN, Bool(b), Str(n) (the one-character string     *)
(* with code n), null and Undefined.  this.config is a function over four  *)
(* keys; a key the object does not have reads as Undefined, as in          *)
(* JavaScript.  The keys are two keys of DEFAULT_CONFIG and the index keys *)
(* "0" and "1" that Object.entries gives for a string or an array.         *)
(*                                                                         *)
(* Listeners.  A callback is a function object; this.listeners holds the   *)
(* callbacks themselves.  A listener is passive: it returns normally and   *)
(* calls nothing of the manager.                                           *)
(***************************************************************************)
MaxListeners == 2

Bool(b) == [kind |-> "bool", n |-> IF b THEN 1 ELSE 0]

Undefined == [kind |-> "undefined", n |-> 0]

\* a !== b
StrictNotEqual_plain(a, b) == a # b

StrictNotEqual(a, b) == a.kind = "nan" \/ b.kind = "nan" \/ a # b

ConfigKeys == <<"cellDensity", "enableTiling">>

IndexKeys == <<"0", "1">>

\* DEFAULT_CONFIG, read at every key of the model: a key it does not have
\* reads as Undefined.
DEFAULT_CONFIG ==
  [k \in {"0", "1", "cellDensity", "enableTiling"} |-> IF k = "cellDensity" THEN Num(50)
                  ELSE IF k = "enableTiling" THEN Bool(FALSE)
                  ELSE Undefined]

\* The values the callers of set hand over: parseFloat of a field
\* (a number or NaN) and the state of a checkbox.
SetValues == {Num(10), NaN, Bool(TRUE)}

\* The objects handed to setMultiple, as Object.entries lists them.
UpdateObjects ==
  LET entries == {<<k, v>> : k \in {"cellDensity", "enableTiling"}, v \in SetValues}
  IN {<<>>} \cup {<<e>> : e \in entries}
            \cup {<<x[1], x[2]>> : x \in {y \in entries \X entries : y[1][1] # y[2][1]}}

\* JSON texts, by what they denote: malformed text, null, a number, a
\* string of two characters (Str(n): the character with code n), an array
\* of two numbers, an object (its entries).
JsonTexts ==
  LET Str(n) == [kind |-> "str", n |-> n]
  IN {[kind |-> "malformed", body |-> <<>>],
      [kind |-> "null", body |-> <<>>],
      [kind |-> "number", body |-> <<Num(5)>>],
      [kind |-> "string", body |-> <<Str(1), Str(2)>>],
      [kind |-> "array", body |-> <<Num(50), Num(10)>>],
      [kind |-> "object", body |-> <<>>],
      [kind |-> "object", body |-> <<<<"cellDensity", Num(10)>>>>],
      [kind |-> "object", body |-> <<<<"cellDensity", Num(50)>>, <<"enableTiling", Bool(TRUE)>>>>]}

\* exportConfig(): JSON.stringify(this.config) lists the keys with a
\* defined value, index keys first, and writes NaN as null.
exportConfig(stored) ==
  LET keys == IndexKeys \o ConfigKeys
      defined(i) == stored[keys[i]] # Undefined
      ToJson(v) == IF v.kind = "nan" THEN [kind |-> "null", n |-> 0] ELSE v
      RECURSIVE Stringify(_)
      Stringify(i) ==
        IF i > Len(keys) THEN <<>>
        ELSE IF defined(i) THEN <<<<keys[i], ToJson(stored[keys[i]])>>>> \o Stringify(i + 1)
        ELSE Stringify(i + 1)
  IN [kind |-> "object", body |-> Stringify(1)]

Change(key, newValue, oldValue) == [key |-> key, newValue |-> newValue, oldValue |-> oldValue]

\* notifyBatch(changes), and notify with its one change: each listener is
\* called with the changes; the record keeps this.config as the listener
\* finds it.
notifyBatch(changes, stored) ==
  [i \in 1..Len(listeners) |->
     [callback |-> listeners[i], changes |-> changes, config |-> stored]]

\* The loop of setMultiple over Object.entries(updates).
RECURSIVE setMultipleLoop(_, _, _)
setMultipleLoop(entries, stored, changes) ==
  IF entries = <<>> THEN [config |-> stored, changes |-> changes]
  ELSE LET key == Head(entries)[1]
           value == Head(entries)[2]
       IN IF StrictNotEqual(stored[key], value)
            THEN setMultipleLoop(Tail(entries), [stored EXCEPT ![key] = value],
                                 Append(changes, Change(key, value, stored[key])))
            ELSE setMultipleLoop(Tail(entries), stored, changes)

InitManager ==
  /\ pc = "manager"
  /\ config = DEFAULT_CONFIG
  /\ ManagerIdle
  /\ InfoIdle
  /\ DelaunayIdle
  /\ CircleIdle
  /\ TiltIdle
  /\ GenIdle
  /\ call = [fn |-> "configManager", tileCol |-> 0, tileRow |-> 0]
  /\ geometry = <<>>
  /\ cfg = DefaultCfg
  /\ buildTris = <<>>
  /\ buildCfg = DefaultCfg
  /\ verts = <<>>
  /\ inds = <<>>
  /\ nextTri = 0
  /\ vertexOffset = 0
  /\ mesh = NoMesh
  /\ reported = 0
  /\ rawZ = <<>>

managerFrame ==
  <<pc, delaunayVars, circleVars, call, geometry, cfg, buildTris, buildCfg, verts, inds,
    nextTri, vertexOffset, mesh, reported, rawZ, tiltVars, genVars, infoVars>>

\* set(key, value)
Set ==
  \E key \in {"cellDensity", "enableTiling"}, value \in SetValues :
    LET oldValue == config[key]
        stored == [config EXCEPT ![key] = value]
    IN /\ config' = stored
       /\ invoked' = IF StrictNotEqual(oldValue, value)
                       THEN notifyBatch(<<Change(key, value, oldValue)>>, stored)
                       ELSE <<>>
       /\ returned' = [op |-> "set", key |-> key, value |-> value]
       /\ UNCHANGED <<listeners, unsubscribers, managerFrame>>

\* setMultiple(updates)
SetMultiple ==
  \E updates \in UpdateObjects :
    LET done == setMultipleLoop(updates, config, <<>>)
    IN /\ config' = done.config
       /\ invoked' = IF Len(done.changes) > 0
                       THEN notifyBatch(done.changes, done.config)
                       ELSE <<>>
       /\ returned' = [op |-> "setMultiple", updates |-> updates]
       /\ UNCHANGED <<listeners, unsubscribers, managerFrame>>

\* reset()
Reset ==
  /\ config' = DEFAULT_CONFIG
  /\ invoked' = notifyBatch([i \in 1..Len(ConfigKeys) |->
                               Change(ConfigKeys[i], DEFAULT_CONFIG[ConfigKeys[i]], Undefined)],
                            DEFAULT_CONFIG)
  /\ returned' = [op |-> "reset"]
  /\ UNCHANGED <<listeners, unsubscribers, managerFrame>>

\* onChange(callback): the returned function is kept by the caller;
\* called tells whether the caller has called it yet.
OnChange ==
  \E callback \in {"f", "g"} :
    /\ Len(unsubscribers) < MaxListeners
    /\ listeners' = Append(listeners, callback)
    /\ unsubscribers' = Append(unsubscribers, [callback |-> callback, called |-> FALSE])
    /\ invoked' = <<>>
    /\ returned' = [op |-> "onChange", callback |-> callback]
    /\ UNCHANGED <<config, managerFrame>>

\* A call of the function that the i-th onChange call returned.
Unsubscribe ==
  \E i \in 1..Len(unsubscribers) :
    LET callback == unsubscribers[i].callback
        differs(l) == l # callback
    IN /\ listeners' = SelectSeq(listeners, differs)
       /\ unsubscribers' = [unsubscribers EXCEPT ![i].called = TRUE]
       /\ invoked' = <<>>
       /\ returned' = [op |-> "unsubscribe", index |-> i]
       /\ UNCHANGED <<config, managerFrame>>

\* importConfig(json), json any text or the text exportConfig() returns
ImportConfig ==
  \E json \in JsonTexts \cup {exportConfig(config)} :
    LET \* JSON.parse(json) throws on malformed text
        parseThrew == json.kind = "malformed"
        \* Object.entries(imported) throws on null
        entriesThrew == json.kind = "null"
        \* and gives nothing for a number, the index keys for a string or
        \* an array, the own keys for an object
        entries == IF json.kind \in {"string", "array"}
                     THEN [i \in 1..Len(json.body) |-> <<IndexKeys[i], json.body[i]>>]
                   ELSE IF json.kind = "object" THEN json.body
                   ELSE <<>>
        done == setMultipleLoop(entries, config, <<>>)
    IN IF parseThrew \/ entriesThrew
         THEN /\ returned' = [op |-> "importConfig", json |-> json, value |-> FALSE]
              /\ invoked' = <<>>
              /\ UNCHANGED <<config, listeners, unsubscribers, managerFrame>>
         ELSE /\ config' = done.config
              /\ invoked' = IF Len(done.changes) > 0
                              THEN notifyBatch(done.changes, done.config)
                              ELSE <<>>
              /\ returned' = [op |-> "importConfig", json |-> json, value |-> TRUE]
              /\ UNCHANGED <<listeners, unsubscribers, managerFrame>>

NextManager ==
  \/ Set
  \/ SetMultiple
  \/ Reset
  \/ OnChange
  \/ Unsubscribe
  \/ ImportConfig

SpecManager == InitManager /\ [][NextManager]_vars

(***************************************************************************)
(* C27.  Change notification of set and setMultiple.                       *)
(***************************************************************************)
Range(f) == {f[i] : i \in DOMAIN f}

\* The value the updates object gives for a key (its entry), if any.
Requested(updates, k) == {e[2] : e \in {x \in Range(updates) : x[1] = k}}

\* Every registered listener is called exactly once with these changes,
\* and finds the requested values stored.
EachListenerCalledWith(calls, changes, requested) ==
  /\ Len(calls) = Len(listeners)
  /\ \A i \in 1..Len(calls) :
       /\ calls[i].callback = listeners[i]
       /\ calls[i].changes = changes
       /\ \A e \in requested : calls[i].config[e[1]] = e[2]

\* A step of set(key, value), where differs(old, new) says what counts as
\* a different value.
SetNotifies(differs(_, _)) ==
  returned'.op = "set" =>
    LET key == returned'.key
        value == returned'.value
    IN /\ config'[key] = value
       /\ IF differs(config[key], value)
            THEN EachListenerCalledWith(invoked', <<Change(key, value, config[key])>>,
                                        {<<key, value>>})
            ELSE invoked' = <<>>

\* A step of setMultiple(updates).
SetMultipleNotifies(differs(_, _)) ==
  returned'.op = "setMultiple" =>
    LET updates == returned'.updates
        changed == {k \in DOMAIN config : \E v \in Requested(updates, k) : differs(config[k], v)}
    IN /\ \A e \in Range(updates) : config'[e[1]] = e[2]
       /\ IF changed = {}
            THEN invoked' = <<>>
            ELSE /\ Len(invoked') = Len(listeners)
                 /\ \A i \in 1..Len(invoked') :
                      LET changes == invoked'[i].changes
                      IN /\ EachListenerCalledWith(invoked', changes, Range(updates))
                         /\ Len(changes) = Cardinality(changed)
                         /\ {c.key : c \in Range(changes)} = changed
                         /\ \A c \in Range(changes) :
                              /\ c.oldValue = config[c.key]
                              /\ c.newValue \in Requested(updates, c.key)

DiffersInValue(a, b) == a # b

DiffersStrictly(a, b) == a # b \/ (a = NaN /\ b = NaN)

LiveRegistrations ==
  LET live(u) == ~u.called
      kept == SelectSeq(unsubscribers, live)
  IN [i \in 1..Len(kept) |-> kept[i].callback]

\* The step is a set, setMultiple or reset call that has a change to report.
ReportsChange ==
  \/ returned'.op = "reset"
  \/ returned'.op \in {"set", "setMultiple"} /\ config' # config

\* C28: the function returned by onChange(callback) removes exactly that
\* one registration: a later set, setMultiple or reset never invokes it
\* again and keeps invoking every other registration, also another
\* registration of the same callback made by a separate onChange call;
\* calling the unsubscribe function twice changes nothing more.
C28_SubscriptionLifecycle ==
  [][ReportsChange =>
       [i \in 1..Len(invoked') |-> invoked'[i].callback] = LiveRegistrations]_vars

(***************************************************************************)
(* C29.  importConfig.                                                     *)
(***************************************************************************)
\* The text cannot be parsed, or denotes null, a number or a string.
\* (An array is left out of both cases of the claim.)
NotAnObject(json) == json.kind \in {"malformed", "null", "number", "string"}

ImportRejects ==
  (returned'.op = "importConfig" /\ NotAnObject(returned'.json)) =>
    /\ returned'.value = FALSE
    /\ config' = config
    /\ invoked' = <<>>

ImportApplies ==
  (returned'.op = "importConfig" /\ returned'.json.kind = "object") =>
    LET entries == returned'.json.body
        changed == {e[1] : e \in {x \in Range(entries) : x[2] # config[x[1]]}}
    IN /\ returned'.value = TRUE
       /\ \A e \in Range(entries) : config'[e[1]] = e[2]
       /\ \A k \in DOMAIN config \ {e[1] : e \in Range(entries)} : config'[k] = config[k]
       /\ IF changed = {} THEN invoked' = <<>>
          ELSE /\ Len(invoked') = Len(listeners)
               /\ \A i \in 1..Len(invoked') :
                    /\ invoked'[i].callback = listeners[i]
                    /\ {c.key : c \in Range(invoked'[i].changes)} = changed
                    /\ Len(invoked'[i].changes) = Cardinality(changed)

ImportOfExport ==
  (returned'.op = "importConfig" /\ returned'.json = exportConfig(config)) =>
    /\ returned'.value = TRUE
    /\ config' = config
    /\ invoked' = <<>>

\* C29: importConfig of a text that cannot be parsed or is not an object
\* returns false, leaves the stored configuration unchanged and notifies
\* no listener; of a valid object it returns true and applies the keys
\* with one batch notification of the changed keys; importConfig of the
\* text exportConfig() returns gives true, changes nothing and notifies
\* no listener.
C29_ImportConfig == [][ImportRejects /\ ImportApplies /\ ImportOfExport]_vars

====
